---------------------------- MODULE Spec2Model ----------------------------
(***************************************************************************)
(* A model of drizzle-kit's SingleStore support: the squasher of the       *)
(* snapshot schema (serializer/singlestoreSchema.ts), the programmatic     *)
(* generate / push entry points (drizzle-kit/src/api.ts) and the CLI push  *)
(* commands (cli/commands/push.ts), and single functions of these files    *)
(* called directly.                                                        *)
(*                                                                         *)
(* A JavaScript string is a sequence of one-character strings, so that     *)
(* join and split work on the characters as the code does.  The value      *)
(* `undefined` is the one-element sequence Undefined, which no string of   *)
(* characters equals.  A property that is absent and a property that holds *)
(* undefined are the same value here.                                      *)
(***************************************************************************)
EXTENDS Integers, Sequences, FiniteSets, TLC

VARIABLES
    \* ---- squasher harness
    sqPc,       \* "off" | "value" | "string" | "squashed" | "done"
    sqKind,     \* "idx" | "pk" | "unq": which pair of functions is applied
    sqVal,      \* the structured value handed to squash*, or NoValue
    sqStr,      \* the string produced by squash* or handed to unsquash*
    sqOut,      \* what unsquash* returned, Threw, or NoValue
    \* ---- one run of an entry point of api.ts or of a CLI push command
    entry,      \* "none" | "generate" | "push" | "cli"
    dialect,    \* "pg" | "sqlite" | "mysql" | "singlestore"
    args,       \* [force, strict, driver]: the arguments of a CLI push command
    pc,         \* the position of the run
    prev,       \* the previous snapshot, or NoValue
    cur,        \* the current snapshot, or NoValue
    uuidCount,  \* calls of randomUUID so far
    validated,  \* which of "prev", "cur" passed <dialect>Schema.parse
    squashed,   \* which of "prev", "cur" went through squash<Dialect>Scheme
    differ,     \* [called, resolved, prompted, renamed]: the differ was invoked;
                \*   resolver decisions taken, prompts they showed, renames they reported
    nStatements,        \* number of statements the differ (and the filter) left
    classification,     \* NoValue, or [shouldAskForApprove, statementsToExecute,
                        \*   filteredSqlStatements] once the classifier returned,
                        \*   or Threw once it failed
    prompts,    \* the prompts shown, each <<kind, answer>>
    exec,       \* [phase, queue, qi]: the loop that sends requests to the database
    sent,       \* the requests sent to the database, each a list of SQL strings
    replies,    \* the database's answers, in order: "ok" | "err"
    outcome,    \* "running" | "returned" | "rejected" | "cancelled" | "exit0" | "exit1"
    applyStatus,        \* of the apply function: "none" | "running" | "resolved" | "rejected"
    rendered,   \* the messages rendered, in order
    errorLogged,\* an error was caught and written to the console
    \* ---- direct calls of single functions (unit harness)
    unit,       \* "off" | "idle" | which group of functions is being called
    produced,   \* the snapshots produced so far, in order
    schemeIn,   \* the snapshot handed to squashSingleStoreScheme, or NoValue
    schemeOut,  \* what squashSingleStoreScheme returned, or NoValue
    inputs,     \* the snapshots the caller of generateSingleStoreMigration built
    heap,       \* these snapshot objects as they are now
    inv,        \* the invocations of generateSingleStoreMigration: their locals
    upIn,       \* the snapshot handed to upPgSnapshot, or NoValue
    upOut,      \* what upPgSnapshot returned, or NoValue
    called,     \* the direct calls made so far, each with its arguments and result
    builder,    \* the config of an IndexBuilder, or NoValue
    optionCalls,\* the calls of using, algorythm and lock on the builder, in order
    built,      \* the Index objects built from the builder, in order
    wr,         \* the arguments withReplicas was called with, or NoValue
    dispatched  \* the calls made on the object withReplicas returned, in order

sqVars == <<sqPc, sqKind, sqVal, sqStr, sqOut>>

snapVars == <<prev, cur, uuidCount>>

diffVars == <<validated, squashed, differ, nStatements>>

dbVars == <<sent, replies>>

runVars == <<entry, dialect, args, pc, snapVars, diffVars, classification, prompts,
             exec, dbVars, outcome, applyStatus, rendered, errorLogged>>

idsVars == <<produced>>
schemeVars == <<schemeIn, schemeOut>>
migrVars == <<inputs, heap, inv>>
upVars == <<upIn, upOut>>

callVars == <<called>>
indexVars == <<builder, optionCalls, built>>
replicaVars == <<wr, dispatched>>
lateVars == <<callVars, indexVars, replicaVars>>

unitVars == <<unit, idsVars, schemeVars, migrVars, upVars, lateVars>>

vars == <<sqVars, runVars, unitVars>>

---------------------------------------------------------------------------
(* Bounds of the squasher inputs.                                          *)

MaxIdentLen == 1    \* characters in an index / key name and in a column entry
MaxCols == 2        \* entries in a columns list
MaxRawLen == 5      \* characters in a raw string handed to unsquash*

(* The characters identifiers and raw strings are made of: a letter and    *)
(* the two delimiters of the encoding.                                     *)
Chars == {"a", ";", ","}

Undefined == <<"#undefined">>
NoValue == [none |-> TRUE]
NoString == <<"#nostring">>
Threw == [threw |-> TRUE]

RECURSIVE StringsOfLen(_)
StringsOfLen(n) ==
    IF n = 0 THEN {<<>>}
    ELSE {Append(s, c) : s \in StringsOfLen(n - 1), c \in Chars}

RECURSIVE StringsUpTo(_)
StringsUpTo(n) ==
    IF n = 0 THEN StringsOfLen(0) ELSE StringsOfLen(n) \cup StringsUpTo(n - 1)

RECURSIVE ListsUpTo(_, _)
ListsUpTo(S, n) ==
    IF n = 0 THEN {<<>>}
    ELSE ListsUpTo(S, n - 1)
         \cup {Append(l, x) : l \in {m \in ListsUpTo(S, n - 1) : Len(m) = n - 1}, x \in S}

---------------------------------------------------------------------------
(* JavaScript string primitives.                                           *)

\* Array.prototype.join(sep): the entries with sep between them; '' for [].
RECURSIVE join(_, _)
join(list, sep) ==
    IF Len(list) = 0 THEN <<>>
    ELSE IF Len(list) = 1 THEN list[1]
    ELSE list[1] \o <<sep>> \o join(Tail(list), sep)

\* String.prototype.split(sep) for a one-character separator: the pieces
\* between the separators; ''.split(sep) is [''].
RECURSIVE split(_, _)
split(s, sep) ==
    IF \A i \in 1..Len(s) : s[i] # sep THEN <<s>>
    ELSE LET k == CHOOSE i \in 1..Len(s) :
                      s[i] = sep /\ \A j \in 1..(i - 1) : s[j] # sep
         IN <<SubSeq(s, 1, k - 1)>> \o split(SubSeq(s, k + 1, Len(s)), sep)

\* Array destructuring: the k-th entry, undefined past the end.
nth(list, k) == IF k <= Len(list) THEN list[k] ELSE Undefined

\* Truthiness of a string-or-undefined: '' and undefined are falsy.
truthy(x) == x # Undefined /\ x # <<>>

\* `${b}` of a boolean.
boolText(b) == IF b THEN <<"t", "r", "u", "e">> ELSE <<"f", "a", "l", "s", "e">>

\* x ?? ''
orEmpty(x) == IF x = Undefined THEN <<>> ELSE x

---------------------------------------------------------------------------
(* The zod object `index` and the types Index, PrimaryKey, UniqueConstraint *)

UsingEnum == {<<"b", "t", "r", "e", "e">>, <<"h", "a", "s", "h">>}
AlgorithmEnum == {<<"d", "e", "f", "a", "u", "l", "t">>,
                  <<"i", "n", "p", "l", "a", "c", "e">>,
                  <<"c", "o", "p", "y">>}
LockEnum == {<<"d", "e", "f", "a", "u", "l", "t">>, <<"n", "o", "n", "e">>,
             <<"s", "h", "a", "r", "e", "d">>,
             <<"e", "x", "c", "l", "u", "s", "i", "v", "e">>}

Idents == StringsUpTo(MaxIdentLen)
ColumnLists == ListsUpTo(Idents, MaxCols)

\* index.parse(v) succeeds: name a string, columns strings, isUnique a
\* boolean, each option absent or a member of its enum.
indexParse(v) ==
    /\ v.name # Undefined
    /\ \A i \in 1..Len(v.columns) : v.columns[i] # Undefined
    /\ v.isUnique \in BOOLEAN
    /\ v.using \in UsingEnum \cup {Undefined}
    /\ v.algorithm \in AlgorithmEnum \cup {Undefined}
    /\ v.lock \in LockEnum \cup {Undefined}

Index ==
    [name : Idents, columns : ColumnLists, isUnique : BOOLEAN,
     using : UsingEnum \cup {Undefined},
     algorithm : AlgorithmEnum \cup {Undefined},
     lock : LockEnum \cup {Undefined}]

PrimaryKey == [name : Idents, columns : ColumnLists]

UniqueConstraint == [name : Idents, columns : ColumnLists]

RawStrings == StringsUpTo(MaxRawLen)

---------------------------------------------------------------------------
(* SingleStoreSquasher                                                     *)

squashIdx(idx) ==
    idx.name \o <<";">> \o join(idx.columns, ",") \o <<";">>
        \o boolText(idx.isUnique) \o <<";">> \o orEmpty(idx.using) \o <<";">>
        \o orEmpty(idx.algorithm) \o <<";">> \o orEmpty(idx.lock)

unsquashIdx(input) ==
    LET fields == split(input, ";")
        name == nth(fields, 1)
        columnsString == nth(fields, 2)
        isUnique == nth(fields, 3)
        using == nth(fields, 4)
        algorithm == nth(fields, 5)
        lock == nth(fields, 6)
    IN  IF columnsString = Undefined THEN Threw  \* undefined.split: TypeError
        ELSE LET destructed ==
                   [name |-> name,
                    columns |-> split(columnsString, ","),
                    isUnique |-> (isUnique = boolText(TRUE)),
                    using |-> IF truthy(using) THEN using ELSE Undefined,
                    algorithm |-> IF truthy(algorithm) THEN algorithm ELSE Undefined,
                    lock |-> IF truthy(lock) THEN lock ELSE Undefined]
             IN IF indexParse(destructed) THEN destructed ELSE Threw

squashPK(pk) == pk.name \o <<";">> \o join(pk.columns, ",")

unsquashPK(pk) ==
    LET splitted == split(pk, ";")
    IN  IF nth(splitted, 2) = Undefined THEN Threw
        ELSE [name |-> splitted[1], columns |-> split(splitted[2], ",")]

squashUnique(unq) == unq.name \o <<";">> \o join(unq.columns, ",")

unsquashUnique(unq) ==
    LET parts == split(unq, ";")
        name == nth(parts, 1)
        columns == nth(parts, 2)
    IN  IF columns = Undefined THEN Threw
        ELSE [name |-> name, columns |-> split(columns, ",")]

---------------------------------------------------------------------------
(* Snapshots, as far as the entry points of api.ts read them.              *)

MaxStmts == 2           \* statements in one list handed to the database
MaxResolverCalls == 1   \* resolver decisions within one run of the differ

Dialects == {"pg", "sqlite", "mysql", "singlestore"}

\* The SQL strings statement lists are made of.
SqlStrings == {"A", "B"}
StmtLists == ListsUpTo(SqlStrings, MaxStmts)

\* originUUID of ./global: the sentinel id of the root of the snapshot chain.
OriginUUID == "00000000-0000-0000-0000-000000000000"

\* randomUUID(): the n-th call returns a value no other call returns.
randomUUID(n) == <<"uuid-1", "uuid-2", "uuid-3", "uuid-4", "uuid-5", "uuid-6">>[n]

NoArg == "#noarg"

\* generateDrizzleJson with `prevId: prevId` in place of
\* `prevId: prevId ?? originUUID`.
generateDrizzleJsonNoSentinel(d, n, prevIdArg) ==
    [id |-> randomUUID(n), prevId |-> prevIdArg,
     dialect |-> d, version |-> "1", wellFormed |-> TRUE,
     madeBy |-> "generateDrizzleJson", prevIdArg |-> prevIdArg]

\* generate*DrizzleJson(imports, prevId): the serialized schema with a fresh
\* id and prevId ?? originUUID.  madeBy and prevIdArg record how the
\* snapshot came to be; the code does not read them.
generateDrizzleJson(d, n, prevIdArg) ==
    [id |-> randomUUID(n),
     prevId |-> IF prevIdArg = NoArg THEN OriginUUID ELSE prevIdArg,
     dialect |-> d, version |-> "1", wellFormed |-> TRUE,
     madeBy |-> "generateDrizzleJson", prevIdArg |-> prevIdArg]

\* singlestorePushIntrospect: { id: originUUID, prevId: '', ...res }.
singlestorePushIntrospect ==
    [id |-> OriginUUID, prevId |-> "", dialect |-> "singlestore",
     version |-> "1", wellFormed |-> TRUE,
     madeBy |-> "pushIntrospect", prevIdArg |-> NoArg]

\* pgPushIntrospect, sqlitePushIntrospect, mysqlPushIntrospect: the
\* introspected snapshot is the root of the chain.
otherPushIntrospect(d) ==
    [id |-> OriginUUID, prevId |-> "", dialect |-> d,
     version |-> "1", wellFormed |-> TRUE,
     madeBy |-> "pushIntrospect", prevIdArg |-> NoArg]

pushIntrospect(d) ==
    IF d = "singlestore" THEN singlestorePushIntrospect ELSE otherPushIntrospect(d)

\* A snapshot JSON document the caller of generate*Migration hands in
\* without going through generate*DrizzleJson (read from a file, built by
\* hand): any id and prevId, and possibly not a document of the schema.
CallerSnapshots(d) ==
    [id : {"uuid-x"}, prevId : {OriginUUID, "uuid-x"},
     dialect : {d, "other"}, version : {"1", "0"}, wellFormed : BOOLEAN,
     madeBy : {"caller"}, prevIdArg : {NoArg}]

\* <dialect>Schema.parse(snapshot) succeeds.  singlestoreSchema asks for
\* version '1' and dialect 'singlestore'; wellFormed stands for the rest of
\* the document (tables, _meta, ...) and, for the other three schemas, for
\* their version literal.
schemaParse(d, snapshot) ==
    /\ snapshot.dialect = d
    /\ snapshot.wellFormed
    /\ (d = "singlestore") => (snapshot.version = "1")

---------------------------------------------------------------------------
(* One run of an entry point.                                              *)

NoExec == [phase |-> "none", queue |-> <<>>, qi |-> 1]
NoArgs == [force |-> FALSE, strict |-> FALSE, driver |-> "none"]

RunIdle ==
    /\ entry = "none" /\ dialect = "singlestore" /\ args = NoArgs
    /\ pc = "idle"
    /\ prev = NoValue /\ cur = NoValue /\ uuidCount = 0
    /\ validated = {} /\ squashed = {}
    /\ differ = [called |-> FALSE, resolved |-> 0, prompted |-> 0, renamed |-> 0]
    /\ nStatements = 0
    /\ classification = NoValue
    /\ prompts = <<>>
    /\ exec = NoExec
    /\ sent = <<>> /\ replies = <<>>
    /\ outcome = "running" /\ applyStatus = "none"
    /\ rendered = <<>> /\ errorLogged = FALSE

SquashOff ==
    /\ sqPc = "off" /\ sqKind = "idx" /\ sqVal = NoValue
    /\ sqStr = NoString /\ sqOut = NoValue

UnitsUntouched ==
    /\ produced = <<>>
    /\ schemeIn = NoValue /\ schemeOut = NoValue
    /\ inputs = <<>> /\ heap = <<>> /\ inv = <<>>
    /\ upIn = NoValue /\ upOut = NoValue
    /\ called = <<>>
    /\ builder = NoValue /\ optionCalls = <<>> /\ built = <<>>
    /\ wr = NoValue /\ dispatched = <<>>

UnitOff == unit = "off" /\ UnitsUntouched

Init == SquashOff /\ RunIdle /\ UnitOff

\* ---- the caller of generate*Migration obtains its two snapshots

StartGenerate ==
    /\ entry = "none"
    /\ \E d \in Dialects : dialect' = d
    /\ entry' = "generate"
    /\ pc' = "needPrev"
    /\ UNCHANGED <<sqVars, unitVars, args, snapVars, diffVars, classification, prompts, exec,
                   dbVars, outcome, applyStatus, rendered, errorLogged>>

\* The caller calls generate*DrizzleJson(imports) or, for the current
\* snapshot, generate*DrizzleJson(imports, prev.id).
CallGenerateDrizzleJson ==
    /\ entry = "generate" /\ pc \in {"needPrev", "needCur"}
    /\ \E prevIdArg \in {NoArg} \cup (IF pc = "needCur" THEN {prev.id} ELSE {}) :
          LET made == generateDrizzleJson(dialect, uuidCount + 1, prevIdArg)
          IN  IF pc = "needPrev"
              THEN prev' = made /\ cur' = cur /\ pc' = "needCur"
              ELSE cur' = made /\ prev' = prev /\ pc' = "haveBoth"
    /\ uuidCount' = uuidCount + 1
    /\ UNCHANGED <<sqVars, unitVars, entry, dialect, args, diffVars, classification, prompts,
                   exec, dbVars, outcome, applyStatus, rendered, errorLogged>>

CallerSuppliesJson ==
    /\ entry = "generate" /\ pc \in {"needPrev", "needCur"}
    /\ \E doc \in CallerSnapshots(dialect) :
          IF pc = "needPrev"
          THEN prev' = doc /\ cur' = cur /\ pc' = "needCur"
          ELSE cur' = doc /\ prev' = prev /\ pc' = "haveBoth"
    /\ UNCHANGED <<sqVars, unitVars, entry, dialect, args, uuidCount, diffVars, classification,
                   prompts, exec, dbVars, outcome, applyStatus, rendered, errorLogged>>

\* ---- generate*Migration(prev, cur)

GenerateMigrationCall ==
    /\ entry = "generate" /\ pc = "haveBoth"
    /\ pc' = "validatePrev"         \* await import('./snapshotsDiffer')
    /\ UNCHANGED <<sqVars, unitVars, entry, dialect, args, snapVars, diffVars, classification,
                   prompts, exec, dbVars, outcome, applyStatus, rendered, errorLogged>>

\* ---- push*Schema(imports, drizzleInstance, ...)

StartPush ==
    /\ entry = "none"
    /\ \E d \in Dialects : dialect' = d
    /\ entry' = "push"
    /\ pc' = "generateCur"
    /\ UNCHANGED <<sqVars, unitVars, args, snapVars, diffVars, classification, prompts, exec,
                   dbVars, outcome, applyStatus, rendered, errorLogged>>

\* const cur = generate*DrizzleJson(imports)
PushGenerateCur ==
    /\ entry = "push" /\ pc = "generateCur"
    /\ cur' = generateDrizzleJson(dialect, uuidCount + 1, NoArg)
    /\ uuidCount' = uuidCount + 1
    /\ pc' = "introspect"
    /\ UNCHANGED <<sqVars, unitVars, entry, dialect, args, prev, diffVars, classification,
                   prompts, exec, dbVars, outcome, applyStatus, rendered, errorLogged>>

\* const { schema: prev } = await *PushIntrospect(db, ...): reads the
\* database; a query of the introspection may fail.
PushIntrospect ==
    /\ entry = "push" /\ pc = "introspect"
    /\ \/ /\ prev' = pushIntrospect(dialect)
          /\ pc' = "validatePrev"
          /\ UNCHANGED outcome
       \/ /\ outcome' = "rejected"
          /\ pc' = "done"
          /\ UNCHANGED prev
    /\ UNCHANGED <<sqVars, unitVars, entry, dialect, args, cur, uuidCount, diffVars,
                   classification, prompts, exec, dbVars, applyStatus, rendered,
                   errorLogged>>

\* ---- the steps generate*Migration and push*Schema share

\* const validatedPrev = <dialect>Schema.parse(prev)
ValidatePrev ==
    /\ entry \in {"generate", "push"} /\ pc = "validatePrev"
    /\ IF schemaParse(dialect, prev)
       THEN validated' = validated \cup {"prev"} /\ pc' = "validateCur"
                /\ UNCHANGED outcome
       ELSE outcome' = "rejected" /\ pc' = "done" /\ UNCHANGED validated
    /\ UNCHANGED <<sqVars, unitVars, entry, dialect, args, snapVars, squashed, differ,
                   nStatements, classification, prompts, exec, dbVars, applyStatus,
                   rendered, errorLogged>>

\* ValidateCur with safeParse in place of parse, its result unread.
ValidateCurNoThrow ==
    /\ entry \in {"generate", "push"} /\ pc = "validateCur"
    /\ validated' = validated \cup {"cur"}
    /\ pc' = "squash"
    /\ UNCHANGED <<sqVars, unitVars, entry, dialect, args, snapVars, squashed, differ,
                   nStatements, classification, prompts, exec, dbVars, outcome,
                   applyStatus, rendered, errorLogged>>

\* const validatedCur = <dialect>Schema.parse(cur)
ValidateCur ==
    /\ entry \in {"generate", "push"} /\ pc = "validateCur"
    /\ IF schemaParse(dialect, cur)
       THEN validated' = validated \cup {"cur"} /\ pc' = "squash"
                /\ UNCHANGED outcome
       ELSE outcome' = "rejected" /\ pc' = "done" /\ UNCHANGED validated
    /\ UNCHANGED <<sqVars, unitVars, entry, dialect, args, snapVars, squashed, differ,
                   nStatements, classification, prompts, exec, dbVars, applyStatus,
                   rendered, errorLogged>>

\* const squashedPrev = squash*Scheme(validatedPrev); squashedCur likewise
Squash ==
    /\ entry \in {"generate", "push"} /\ pc = "squash"
    /\ squashed' = {"prev", "cur"}
    /\ pc' = "diff"
    /\ UNCHANGED <<sqVars, unitVars, entry, dialect, args, snapVars, validated, differ,
                   nStatements, classification, prompts, exec, dbVars, outcome,
                   applyStatus, rendered, errorLogged>>

\* await apply*SnapshotsDiff(squashedPrev, squashedCur, ...resolvers, ...)
DifferCall ==
    /\ entry \in {"generate", "push"} /\ pc = "diff"
    /\ differ' = [differ EXCEPT !.called = TRUE]
    /\ pc' = "diffing"
    /\ UNCHANGED <<sqVars, unitVars, entry, dialect, args, snapVars, validated, squashed,
                   nStatements, classification, prompts, exec, dbVars, outcome,
                   applyStatus, rendered, errorLogged>>

\* api.ts hands the differ tablesResolver and columnsResolver (and
\* schemasResolver, enumsResolver, sequencesResolver for pg), imported from
\* './cli/commands/migrate': the resolvers of the CLI.
\* A resolver of './cli/commands/migrate' on the created and deleted
\* entities the differ found: with entities on both sides it asks the
\* operator, for each created one, whether it is new or one of the deleted
\* ones renamed, and waits for the answer; with one side empty it answers
\* at once that nothing was renamed.
interactiveResolver(created, deleted, answer) ==
    IF created /\ deleted
    THEN [prompted |-> 1, renamed |-> IF answer = "renamed" THEN 1 ELSE 0]
    ELSE [prompted |-> 0, renamed |-> 0]

\* The differ hands deleted and created entities to a resolver, which
\* answers ...
ResolverDecides ==
    /\ entry \in {"generate", "push"} /\ pc = "diffing"
    /\ differ.resolved < MaxResolverCalls
    /\ \E created \in BOOLEAN, deleted \in BOOLEAN, answer \in {"created", "renamed"} :
          LET r == interactiveResolver(created, deleted, answer)
          IN  differ' = [differ EXCEPT !.resolved = @ + 1,
                                       !.prompted = @ + r.prompted,
                                       !.renamed = @ + r.renamed]
    /\ UNCHANGED <<sqVars, unitVars, entry, dialect, args, pc, snapVars, validated, squashed,
                   nStatements, classification, prompts, exec, dbVars, outcome,
                   applyStatus, rendered, errorLogged>>

\* ... or ends the run (the operator aborts the prompt).
ResolverAborts ==
    /\ entry \in {"generate", "push"} /\ pc = "diffing"
    /\ outcome' = "cancelled"
    /\ pc' = "done"
    /\ UNCHANGED <<sqVars, unitVars, entry, dialect, args, snapVars, diffVars, classification,
                   prompts, exec, dbVars, applyStatus, rendered, errorLogged>>

\* The differ throws.
DifferThrows ==
    /\ entry \in {"generate", "push"} /\ pc = "diffing"
    /\ outcome' = "rejected"
    /\ pc' = "done"
    /\ UNCHANGED <<sqVars, unitVars, entry, dialect, args, snapVars, diffVars, classification,
                   prompts, exec, dbVars, applyStatus, rendered, errorLogged>>

\* The differ returns { statements, sqlStatements, _meta }.
\* generate*Migration returns sqlStatements; push*Schema goes on.
DifferReturns ==
    /\ entry \in {"generate", "push"} /\ pc = "diffing"
    /\ \E n \in 0..MaxStmts : nStatements' = n
    /\ IF entry = "generate"
       THEN outcome' = "returned" /\ pc' = "done"
       ELSE pc' = "classify" /\ UNCHANGED outcome
    /\ UNCHANGED <<sqVars, unitVars, entry, dialect, args, snapVars, validated, squashed, differ,
                   classification, prompts, exec, dbVars, applyStatus, rendered,
                   errorLogged>>

\* PushClassify with a classifier that runs a statement it judges while it
\* is still classifying.
PushClassifyExecutes ==
    /\ entry = "push" /\ pc = "classify"
    /\ \/ /\ \E ask \in BOOLEAN, ste \in StmtLists :
                classification' = [shouldAskForApprove |-> ask,
                                   statementsToExecute |-> ste,
                                   filteredSqlStatements |-> <<>>]
          /\ pc' = "return"
          /\ UNCHANGED <<dbVars, outcome>>
       \/ /\ sent = <<>> /\ nStatements > 0
          /\ \E sql \in SqlStrings : sent' = Append(sent, <<sql>>)
          /\ replies' = Append(replies, "ok")
          /\ UNCHANGED <<classification, pc, outcome>>
    /\ UNCHANGED <<sqVars, unitVars, entry, dialect, args, snapVars, diffVars, prompts, exec,
                   applyStatus, rendered, errorLogged>>

\* PushClassify with the classifier's error caught and dropped:
\* try { await logSuggestionsAndReturn(...) } catch {}, and the run goes on.
PushClassifySwallowsError ==
    /\ entry = "push" /\ pc = "classify"
    /\ \/ /\ \E ask \in BOOLEAN, ste \in StmtLists :
                classification' = [shouldAskForApprove |-> ask,
                                   statementsToExecute |-> ste,
                                   filteredSqlStatements |-> <<>>]
          /\ pc' = "return"
          /\ UNCHANGED outcome
       \/ /\ classification' = Threw
          /\ pc' = "return"
          /\ UNCHANGED outcome
    /\ UNCHANGED <<sqVars, unitVars, entry, dialect, args, snapVars, diffVars, prompts, exec,
                   dbVars, applyStatus, rendered, errorLogged>>

\* await logSuggestionsAndReturn(db, statements, ...) (pgSuggestions for
\* pg): may query the database for row counts; returns the classification,
\* or fails (a query of the classifier fails).
PushClassify ==
    /\ entry = "push" /\ pc = "classify"
    /\ \/ /\ \E ask \in BOOLEAN, ste \in StmtLists :
                classification' = [shouldAskForApprove |-> ask,
                                   statementsToExecute |-> ste,
                                   filteredSqlStatements |-> <<>>]
          /\ pc' = "return"
          /\ UNCHANGED outcome
       \/ /\ classification' = Threw
          /\ outcome' = "rejected"
          /\ pc' = "done"
    /\ UNCHANGED <<sqVars, unitVars, entry, dialect, args, snapVars, diffVars, prompts, exec,
                   dbVars, applyStatus, rendered, errorLogged>>

\* return { hasDataLoss, warnings, statementsToExecute, apply }
PushReturn ==
    /\ entry = "push" /\ pc = "return"
    /\ outcome' = "returned"
    /\ pc' = "returned"
    /\ UNCHANGED <<sqVars, unitVars, entry, dialect, args, snapVars, diffVars, classification,
                   prompts, exec, dbVars, applyStatus, rendered, errorLogged>>

\* One request per statement, in list order.
Requests(list) == [i \in 1..Len(list) |-> <<list[i]>>]

\* The caller calls apply().
ApplyCall ==
    /\ entry = "push" /\ pc = "returned" /\ applyStatus = "none"
    /\ applyStatus' = "running"
    /\ exec' = [phase |-> "apply",
                queue |-> Requests(classification.statementsToExecute), qi |-> 1]
    /\ pc' = "exec"
    /\ UNCHANGED <<sqVars, unitVars, entry, dialect, args, snapVars, diffVars, classification,
                   prompts, dbVars, outcome, rendered, errorLogged>>

---------------------------------------------------------------------------
(* The CLI push commands mysqlPush, singlestorePush, pgPush, sqlitePush.   *)

\* What render(new Select([...])) resolves to: data.index 0 ('No, abort'),
\* data.index 1 ('Yes, ...'), or no data (the prompt ended without a
\* selection).
PromptAnswers == {"no", "yes", "none"}

Drivers(d) == IF d = "sqlite" THEN {"none", "turso", "other"} ELSE {"none"}

StartCli ==
    /\ entry = "none"
    /\ \E d \in Dialects, force \in BOOLEAN, strict \in BOOLEAN :
          \E driver \in Drivers(d) :
             /\ dialect' = d
             /\ args' = [force |-> force, strict |-> strict, driver |-> driver]
    /\ entry' = "cli"
    /\ pc' = "connect"
    /\ UNCHANGED <<sqVars, unitVars, snapVars, diffVars, classification, prompts, exec, dbVars,
                   outcome, applyStatus, rendered, errorLogged>>

\* await connectTo*(credentials)
CliConnect ==
    /\ entry = "cli" /\ pc = "connect"
    /\ \/ pc' = "introspect" /\ UNCHANGED outcome
       \/ outcome' = "rejected" /\ pc' = "done"
    /\ UNCHANGED <<sqVars, unitVars, entry, dialect, args, snapVars, diffVars, classification,
                   prompts, exec, dbVars, applyStatus, rendered, errorLogged>>

\* const { schema } = await *PushIntrospect(db, ..., tablesFilter)
CliIntrospect ==
    /\ entry = "cli" /\ pc = "introspect"
    /\ \/ /\ prev' = pushIntrospect(dialect)
          /\ pc' = "prepare"
          /\ UNCHANGED outcome
       \/ /\ outcome' = "rejected"
          /\ pc' = "done"
          /\ UNCHANGED prev
    /\ UNCHANGED <<sqVars, unitVars, entry, dialect, args, cur, uuidCount, diffVars,
                   classification, prompts, exec, dbVars, applyStatus, rendered,
                   errorLogged>>

\* const statements = await prepare*Push(schemaPath, schema): serializes the
\* schema files, validates both snapshots and runs the differ with the
\* interactive resolvers; returns the statements with validatedCur and
\* validatedPrev (squashedCur and squashedPrev for sqlite).
CliPrepare ==
    /\ entry = "cli" /\ pc = "prepare"
    /\ \/ /\ \E n \in 0..MaxStmts : nStatements' = n
          /\ validated' = {"prev", "cur"}
          /\ squashed' = {"prev", "cur"}
          /\ differ' = [differ EXCEPT !.called = TRUE]
          /\ pc' = IF dialect \in {"mysql", "singlestore"} THEN "filter" ELSE "check"
          /\ UNCHANGED outcome
       \/ /\ \E how \in {"rejected", "cancelled"} : outcome' = how
          /\ pc' = "done"
          /\ UNCHANGED diffVars
    /\ UNCHANGED <<sqVars, unitVars, entry, dialect, args, snapVars, classification, prompts,
                   exec, dbVars, applyStatus, rendered, errorLogged>>

\* const filteredStatements = filterStatements(statements.statements ?? [], ...)
CliFilter ==
    /\ entry = "cli" /\ pc = "filter"
    /\ \E n \in 0..nStatements : nStatements' = n
    /\ pc' = "check"
    /\ UNCHANGED <<sqVars, unitVars, entry, dialect, args, snapVars, validated, squashed, differ,
                   classification, prompts, exec, dbVars, outcome, applyStatus,
                   rendered, errorLogged>>

\* if (filteredStatements.length === 0) render('No changes detected')
CliCheck ==
    /\ entry = "cli" /\ pc = "check"
    /\ IF nStatements = 0
       THEN /\ rendered' = Append(rendered, "No changes detected")
            /\ outcome' = "returned"
            /\ pc' = "done"
       ELSE /\ pc' = "classify"
            /\ UNCHANGED <<rendered, outcome>>
    /\ UNCHANGED <<sqVars, unitVars, entry, dialect, args, snapVars, diffVars, classification,
                   prompts, exec, dbVars, applyStatus, errorLogged>>

\* The classifier, and for mysql and singlestore fromJson(filteredStatements).
\* An error is caught and logged by mysqlPush, singlestorePush and pgPush;
\* sqlitePush has no try around it.
CliClassify ==
    /\ entry = "cli" /\ pc = "classify"
    /\ \/ /\ \E ask \in BOOLEAN, ste \in StmtLists :
                \E fss \in (IF dialect \in {"mysql", "singlestore"}
                            THEN StmtLists ELSE {<<>>}) :
                   classification' = [shouldAskForApprove |-> ask,
                                      statementsToExecute |-> ste,
                                      filteredSqlStatements |-> fss]
          /\ pc' = "strictPrompt"
          /\ UNCHANGED <<outcome, errorLogged>>
       \/ /\ IF dialect = "sqlite"
             THEN outcome' = "rejected" /\ UNCHANGED errorLogged
             ELSE outcome' = "returned" /\ errorLogged' = TRUE
          /\ pc' = "done"
          /\ classification' = Threw
    /\ UNCHANGED <<sqVars, unitVars, entry, dialect, args, snapVars, diffVars, prompts, exec,
                   dbVars, applyStatus, rendered>>

\* What a prompt's answer does: only data?.index === 0 aborts.
promptAborts(answer) == answer = "no"

\* The strict prompt with `if (!force && strict) { prompt }`, whatever
\* shouldAskForApprove is.
CliStrictPromptAlways ==
    /\ entry = "cli" /\ pc = "strictPrompt"
    /\ IF ~args.force /\ args.strict
       THEN \E answer \in PromptAnswers :
               /\ prompts' = Append(prompts, <<"strict", answer>>)
               /\ IF promptAborts(answer)
                  THEN /\ rendered' = Append(rendered, "All changes were aborted")
                       /\ outcome' = "exit0"
                       /\ pc' = "done"
                  ELSE /\ pc' = "dataLossPrompt"
                       /\ UNCHANGED <<rendered, outcome>>
       ELSE /\ pc' = "dataLossPrompt"
            /\ UNCHANGED <<prompts, rendered, outcome>>
    /\ UNCHANGED <<sqVars, unitVars, entry, dialect, args, snapVars, diffVars, classification,
                   exec, dbVars, applyStatus, errorLogged>>

\* if (!force && strict) { if (!shouldAskForApprove) { prompt } }
CliStrictPrompt ==
    /\ entry = "cli" /\ pc = "strictPrompt"
    /\ IF ~args.force /\ args.strict /\ ~classification.shouldAskForApprove
       THEN \E answer \in PromptAnswers :
               /\ prompts' = Append(prompts, <<"strict", answer>>)
               /\ IF promptAborts(answer)
                  THEN /\ rendered' = Append(rendered, "All changes were aborted")
                       /\ outcome' = "exit0"
                       /\ pc' = "done"
                  ELSE /\ pc' = "dataLossPrompt"
                       /\ UNCHANGED <<rendered, outcome>>
       ELSE /\ pc' = "dataLossPrompt"
            /\ UNCHANGED <<prompts, rendered, outcome>>
    /\ UNCHANGED <<sqVars, unitVars, entry, dialect, args, snapVars, diffVars, classification,
                   exec, dbVars, applyStatus, errorLogged>>

\* if (!force && shouldAskForApprove) { prompt }
CliDataLossPrompt ==
    /\ entry = "cli" /\ pc = "dataLossPrompt"
    /\ IF ~args.force /\ classification.shouldAskForApprove
       THEN \E answer \in PromptAnswers :
               /\ prompts' = Append(prompts, <<"dataLoss", answer>>)
               /\ IF promptAborts(answer)
                  THEN /\ rendered' = Append(rendered, "All changes were aborted")
                       /\ outcome' = "exit0"
                       /\ pc' = "done"
                  ELSE /\ pc' = "execute"
                       /\ UNCHANGED <<rendered, outcome>>
       ELSE /\ pc' = "execute"
            /\ UNCHANGED <<prompts, rendered, outcome>>
    /\ UNCHANGED <<sqVars, unitVars, entry, dialect, args, snapVars, diffVars, classification,
                   exec, dbVars, applyStatus, errorLogged>>

\* statementsToExecute.forEach((ss) => { if (!unique.includes(ss)) unique.push(ss) })
RECURSIVE unique(_)
unique(list) ==
    IF Len(list) = 0 THEN <<>>
    ELSE LET front == unique(SubSeq(list, 1, Len(list) - 1))
             ss == list[Len(list)]
         IN  IF \E i \in 1..Len(front) : front[i] = ss THEN front
             ELSE Append(front, ss)

\* The requests mysqlPush and singlestorePush send: the two de-duplicated
\* lists, one after the other.
twoListsQueue(c) ==
    Requests(unique(c.statementsToExecute) \o unique(c.filteredSqlStatements))

\* The requests pgPush sends.
pgQueue(c) == Requests(c.statementsToExecute)

\* The statement loops of mysqlPush, singlestorePush and pgPush begin.
CliExecute ==
    /\ entry = "cli" /\ pc = "execute" /\ dialect # "sqlite"
    /\ exec' = [phase |-> "main",
                queue |-> IF dialect = "pg" THEN pgQueue(classification)
                          ELSE twoListsQueue(classification),
                qi |-> 1]
    /\ pc' = "exec"
    /\ UNCHANGED <<sqVars, unitVars, entry, dialect, args, snapVars, diffVars, classification,
                   prompts, dbVars, outcome, applyStatus, rendered, errorLogged>>

\* sqlitePush: nothing to execute, a transaction (no driver in the
\* credentials), one batch (turso), or no request at all (another driver).
SqliteExecute ==
    /\ entry = "cli" /\ pc = "execute" /\ dialect = "sqlite"
    /\ IF Len(classification.statementsToExecute) = 0
       THEN /\ rendered' = Append(rendered, "No changes detected")
            /\ outcome' = "returned" /\ pc' = "done"
            /\ UNCHANGED exec
       ELSE IF args.driver = "none"
       THEN /\ exec' = [phase |-> "begin", queue |-> <<<<"begin">>>>, qi |-> 1]
            /\ pc' = "exec"
            /\ UNCHANGED <<rendered, outcome>>
       ELSE IF args.driver = "turso"
       THEN /\ exec' = [phase |-> "batch",
                        queue |-> <<classification.statementsToExecute>>, qi |-> 1]
            /\ pc' = "exec"
            /\ UNCHANGED <<rendered, outcome>>
       ELSE /\ rendered' = Append(rendered, "Changes applied")
            /\ outcome' = "returned" /\ pc' = "done"
            /\ UNCHANGED exec
    /\ UNCHANGED <<sqVars, unitVars, entry, dialect, args, snapVars, diffVars, classification,
                   prompts, dbVars, applyStatus, errorLogged>>

---------------------------------------------------------------------------
(* The statement loops: for (const s of list) { await db.query(s) }.       *)

\* The loop without await: db.query(s) is called and the loop goes on.
notAwaited == TRUE

\* await: the loop goes on only when the request it sent has been answered.
awaited == Len(replies) = Len(sent)

\* db.query(dStmnt) (db.batch for turso): the next request of the loop.
QuerySend ==
    /\ pc = "exec"
    /\ exec.qi <= Len(exec.queue)
    /\ awaited
    /\ sent' = Append(sent, exec.queue[exec.qi])
    /\ exec' = [exec EXCEPT !.qi = @ + 1]
    /\ UNCHANGED <<sqVars, unitVars, entry, dialect, args, pc, snapVars, diffVars,
                   classification, prompts, replies, outcome, applyStatus, rendered,
                   errorLogged>>

\* The database acknowledges the oldest unanswered request.
DbAcknowledges ==
    /\ Len(replies) < Len(sent)
    /\ replies' = Append(replies, "ok")
    /\ UNCHANGED <<sqVars, unitVars, entry, dialect, args, pc, snapVars, diffVars,
                   classification, prompts, exec, sent, outcome, applyStatus,
                   rendered, errorLogged>>

\* apply() with try { await db.query(s) } catch {} around each statement.
applySwallows ==
    UNCHANGED <<pc, exec, applyStatus, outcome, rendered, errorLogged>>

\* apply(): nothing catches the error; the promise of apply rejects.
applyRejects ==
    /\ applyStatus' = "rejected"
    /\ pc' = "done"
    /\ UNCHANGED <<exec, outcome, rendered, errorLogged>>

\* mysqlPush, singlestorePush, pgPush: catch (e) { console.log(e) }, and
\* the command returns.
cliCatches ==
    /\ errorLogged' = TRUE
    /\ outcome' = "returned"
    /\ pc' = "done"
    /\ UNCHANGED <<exec, applyStatus, rendered>>

\* sqlitePush, inside try, with catch (e) { console.error(e); process.exit(1) }
sqliteCatchesNoRollback ==
    /\ errorLogged' = TRUE
    /\ outcome' = "exit1"
    /\ pc' = "done"
    /\ UNCHANGED <<exec, applyStatus, rendered>>

\* sqlitePush, inside try: console.error(e); await db.query('rollback')
sqliteCatches ==
    /\ errorLogged' = TRUE
    /\ exec' = [phase |-> "rollback", queue |-> <<<<"rollback">>>>, qi |-> 1]
    /\ UNCHANGED <<pc, outcome, applyStatus, rendered>>

\* sqlitePush, outside try ('begin', 'rollback', db.batch): the command rejects.
sqliteRejects ==
    /\ outcome' = "rejected"
    /\ pc' = "done"
    /\ UNCHANGED <<exec, applyStatus, rendered, errorLogged>>

\* The database answers the oldest unanswered request with an error, which
\* the awaiting loop receives.
QueryFails ==
    /\ pc = "exec"
    /\ Len(replies) < Len(sent)
    /\ replies' = Append(replies, "err")
    /\ CASE entry = "push" -> applyRejects
         [] entry = "cli" /\ dialect # "sqlite" -> cliCatches
         [] entry = "cli" /\ dialect = "sqlite" /\ exec.phase = "try" -> sqliteCatches
         [] OTHER -> sqliteRejects
    /\ UNCHANGED <<sqVars, unitVars, entry, dialect, args, snapVars, diffVars, classification,
                   prompts, sent>>

\* apply() resolves.
applyResolves ==
    /\ applyStatus' = "resolved"
    /\ pc' = "done"
    /\ UNCHANGED <<exec, outcome, rendered>>

\* if (filteredStatements.length > 0) render('Changes applied')
\* else render('No changes detected')
cliApplied ==
    /\ rendered' = Append(rendered, IF nStatements > 0 THEN "Changes applied"
                                    ELSE "No changes detected")
    /\ outcome' = "returned"
    /\ pc' = "done"
    /\ UNCHANGED <<exec, applyStatus>>

\* sqlitePush after 'begin': try { the statements; 'commit' }
sqliteBegun ==
    /\ exec' = [phase |-> "try",
                queue |-> Requests(classification.statementsToExecute \o <<"commit">>),
                qi |-> 1]
    /\ UNCHANGED <<pc, outcome, applyStatus, rendered>>

\* sqlitePush after 'rollback': process.exit(1)
sqliteRolledBack ==
    /\ outcome' = "exit1"
    /\ pc' = "done"
    /\ UNCHANGED <<exec, applyStatus, rendered>>

\* The loop has sent every request and the last one was answered.
LoopEnds ==
    /\ pc = "exec"
    /\ exec.qi > Len(exec.queue)
    /\ awaited
    /\ CASE entry = "push" -> applyResolves
         [] entry = "cli" /\ exec.phase = "begin" -> sqliteBegun
         [] entry = "cli" /\ exec.phase = "rollback" -> sqliteRolledBack
         [] OTHER -> cliApplied
    /\ UNCHANGED <<sqVars, unitVars, entry, dialect, args, snapVars, diffVars, classification,
                   prompts, dbVars, errorLogged>>

\* The statements whose effect the database holds: those of the requests it
\* acknowledged, in order.
RECURSIVE executedUpTo(_)
executedUpTo(k) ==
    IF k = 0 THEN <<>>
    ELSE executedUpTo(k - 1) \o (IF replies[k] = "ok" THEN sent[k] ELSE <<>>)

executed == executedUpTo(Len(replies))

Next ==
    \/ StartGenerate
    \/ CallGenerateDrizzleJson
    \/ CallerSuppliesJson
    \/ GenerateMigrationCall
    \/ StartPush
    \/ PushGenerateCur
    \/ PushIntrospect
    \/ ValidatePrev
    \/ ValidateCur
    \/ Squash
    \/ DifferCall
    \/ ResolverDecides
    \/ ResolverAborts
    \/ DifferThrows
    \/ DifferReturns
    \/ PushClassify
    \/ PushReturn
    \/ ApplyCall
    \/ StartCli
    \/ CliConnect
    \/ CliIntrospect
    \/ CliPrepare
    \/ CliFilter
    \/ CliCheck
    \/ CliClassify
    \/ CliStrictPrompt
    \/ CliDataLossPrompt
    \/ CliExecute
    \/ SqliteExecute
    \/ QuerySend
    \/ DbAcknowledges
    \/ QueryFails
    \/ LoopEnds

Spec == Init /\ [][Next]_vars

---------------------------------------------------------------------------
(* The squasher harness: Init draws a structured value (to be squashed and *)
(* unsquashed again) or a raw string (to be unsquashed); each action is    *)
(* one call of a SingleStoreSquasher function.                             *)

ValuesOf(kind) ==
    IF kind = "idx" THEN Index
    ELSE IF kind = "pk" THEN PrimaryKey ELSE UniqueConstraint

SquashInit ==
    /\ sqKind \in {"idx", "pk", "unq"}
    /\ \/ /\ sqVal \in ValuesOf(sqKind)
          /\ sqStr = NoString
          /\ sqPc = "value"
       \/ /\ sqVal = NoValue
          /\ sqStr \in RawStrings
          /\ sqPc = "string"
    /\ sqOut = NoValue
    /\ RunIdle /\ UnitOff

CallSquashIdx ==
    /\ sqPc = "value" /\ sqKind = "idx"
    /\ indexParse(sqVal)
    /\ sqStr' = squashIdx(sqVal)
    /\ sqPc' = "squashed"
    /\ UNCHANGED <<sqKind, sqVal, sqOut, runVars, unitVars>>

CallUnsquashIdx ==
    /\ sqPc \in {"squashed", "string"} /\ sqKind = "idx"
    /\ sqOut' = unsquashIdx(sqStr)
    /\ sqPc' = "done"
    /\ UNCHANGED <<sqKind, sqVal, sqStr, runVars, unitVars>>

CallSquashPK ==
    /\ sqPc = "value" /\ sqKind = "pk"
    /\ sqStr' = squashPK(sqVal)
    /\ sqPc' = "squashed"
    /\ UNCHANGED <<sqKind, sqVal, sqOut, runVars, unitVars>>

CallUnsquashPK ==
    /\ sqPc \in {"squashed", "string"} /\ sqKind = "pk"
    /\ sqOut' = unsquashPK(sqStr)
    /\ sqPc' = "done"
    /\ UNCHANGED <<sqKind, sqVal, sqStr, runVars, unitVars>>

CallSquashUnique ==
    /\ sqPc = "value" /\ sqKind = "unq"
    /\ sqStr' = squashUnique(sqVal)
    /\ sqPc' = "squashed"
    /\ UNCHANGED <<sqKind, sqVal, sqOut, runVars, unitVars>>

CallUnsquashUnique ==
    /\ sqPc \in {"squashed", "string"} /\ sqKind = "unq"
    /\ sqOut' = unsquashUnique(sqStr)
    /\ sqPc' = "done"
    /\ UNCHANGED <<sqKind, sqVal, sqStr, runVars, unitVars>>

SquashNext ==
    \/ CallSquashIdx
    \/ CallUnsquashIdx
    \/ CallSquashPK
    \/ CallUnsquashPK
    \/ CallSquashUnique
    \/ CallUnsquashUnique

SquashSpec == SquashInit /\ [][SquashNext]_vars

---------------------------------------------------------------------------
(* Properties of the squasher.                                             *)

FieldCount(s) == Len(split(s, ";"))

ExpectedFields(kind) == IF kind = "idx" THEN 6 ELSE 2

\* C1: squash/unsquash inverse law: for every valid Index, PrimaryKey and
\* UniqueConstraint value v (empty columns lists and entries holding ';' or
\* ',' included), unsquash(squash(v)) = v.
C1_SquashUnsquashInverse ==
    (sqPc = "done" /\ sqVal # NoValue) => sqOut = sqVal

\* C8: unsquashIdx, unsquashPK and unsquashUnique throw on every input whose
\* number of ';'-separated fields is wrong (too few or too many).
C8_WrongFieldCountThrows ==
    (sqPc = "done" /\ FieldCount(sqStr) # ExpectedFields(sqKind)) => sqOut = Threw

\* C9: for every index, squashIdx writes an empty field for each absent
\* option, the squashed string has exactly six ';'-separated fields, and
\* unsquashIdx maps each empty option field back to an absent option.
C9_AbsentOptionsAreEmptyFields ==
    (sqKind = "idx" /\ sqVal # NoValue /\ sqPc \in {"squashed", "done"}) =>
        LET f == split(sqStr, ";")
        IN  /\ Len(f) = 6
            /\ (sqVal.using = Undefined) => (f[4] = <<>>)
            /\ (sqVal.algorithm = Undefined) => (f[5] = <<>>)
            /\ (sqVal.lock = Undefined) => (f[6] = <<>>)
            /\ (sqPc = "done") =>
                   /\ sqOut # Threw
                   /\ (sqVal.using = Undefined) => (sqOut.using = Undefined)
                   /\ (sqVal.algorithm = Undefined) => (sqOut.algorithm = Undefined)
                   /\ (sqVal.lock = Undefined) => (sqOut.lock = Undefined)

---------------------------------------------------------------------------
(* Properties of the entry points.                                         *)

anyError == \E i \in 1..Len(replies) : replies[i] = "err"

\* The classifier returned its result.
classified == classification \notin {NoValue, Threw}

\* A statement of the migration (not 'begin', 'commit' or 'rollback') was
\* sent to the database.
statementSent ==
    \E i \in 1..Len(sent) : sent[i] \notin {<<"begin">>, <<"commit">>, <<"rollback">>}

\* C2: the apply function of push*Schema sends the statements of
\* statementsToExecute one after another in list order: a statement is sent
\* only after the one before it was acknowledged, none is skipped or
\* reordered, and when apply resolves every statement has run.
C2_ApplySequentialInOrder ==
    (entry = "push") =>
        /\ Len(sent) <= Len(replies) + 1
        /\ \A i \in 1..(Len(sent) - 1) : replies[i] = "ok"
        /\ (sent # <<>>) =>
               sent = SubSeq(Requests(classification.statementsToExecute), 1, Len(sent))
        /\ (applyStatus = "resolved") =>
               /\ sent = Requests(classification.statementsToExecute)
               /\ executed = classification.statementsToExecute

C2_Witness ==
    /\ entry = "push" /\ applyStatus = "resolved"
    /\ Len(classification.statementsToExecute) >= 2
    /\ executed = classification.statementsToExecute

\* C3: in a CLI push command with shouldAskForApprove and without force, no
\* statement is sent to the database unless the operator chose 'Yes' at the
\* data-loss prompt.
C3_NoExecutionWithoutYes ==
    (/\ entry = "cli"
     /\ classified
     /\ classification.shouldAskForApprove
     /\ ~args.force
     /\ statementSent)
        => \E i \in 1..Len(prompts) : prompts[i] = <<"dataLoss", "yes">>

\* C4: when a statement fails during apply, apply rejects at once, no
\* later statement is sent, and the statements executed before stay
\* executed: apply sends no rollback.
C4_ApplyStopsAtFailure ==
    (entry = "push" /\ anyError) =>
        /\ applyStatus = "rejected"
        /\ Len(sent) = Len(replies)
        /\ replies[Len(replies)] = "err"
        /\ \A i \in 1..Len(sent) : sent[i] # <<"rollback">>
        /\ executed = SubSeq(classification.statementsToExecute, 1, Len(sent) - 1)

C4_Witness ==
    /\ entry = "push" /\ applyStatus = "rejected"
    /\ Len(classification.statementsToExecute) = 2
    /\ replies = <<"ok", "err">>

\* C5: when a statement fails while mysqlPush, singlestorePush or pgPush
\* execute statements, the error propagates to the caller of the command
\* and the remaining statements are not executed.
C5_CliErrorPropagates ==
    (entry = "cli" /\ dialect # "sqlite" /\ anyError) =>
        /\ outcome = "rejected"
        /\ Len(sent) = Len(replies)

\* C6: in generate*Migration, if the previous or the current snapshot fails
\* validation, the call fails before squashing and before the differ is
\* invoked, and returns no statement list.
C6_InvalidSnapshotStopsBeforeDiff ==
    (entry = "generate") =>
        /\ (squashed # {} \/ differ.called \/ outcome = "returned") =>
               (schemaParse(dialect, prev) /\ schemaParse(dialect, cur))
        /\ (pc = "done" /\ ~(schemaParse(dialect, prev) /\ schemaParse(dialect, cur))) =>
               (outcome = "rejected" /\ squashed = {} /\ ~differ.called)

C6_Witness ==
    /\ entry = "generate" /\ pc = "done"
    /\ schemaParse(dialect, prev) /\ ~schemaParse(dialect, cur)
    /\ outcome = "rejected" /\ squashed = {} /\ ~differ.called

\* C7: in every push path no statement is sent to the database before
\* validation, the differ (with its resolver decisions) and the data-loss
\* classification have completed; a run cancelled or failed before that
\* has sent nothing.
C7_NothingExecutedBeforeClassification ==
    /\ (entry \in {"push", "cli"} /\ sent # <<>>) =>
           /\ validated = {"prev", "cur"}
           /\ differ.called
           /\ pc \notin {"diff", "diffing", "classify", "prepare"}
           /\ classified
    /\ (outcome = "cancelled") => (sent = <<>>)
    /\ (entry \in {"push", "cli"} /\ ~classified) => (sent = <<>>)

C7_Witness ==
    /\ entry = "push" /\ differ.resolved > 0
    /\ sent # <<>>

\* C10 as stated: whenever a current snapshot is diffed against a previous
\* one (generate*Migration and push*Schema), the current snapshot's prevId
\* is the previous snapshot's id; a snapshot created without a prevId
\* argument carries originUUID as prevId.
C10_PrevIdLinksWheneverDiffed ==
    (entry \in {"generate", "push"} /\ differ.called) =>
        /\ cur.prevId = prev.id
        /\ \A snapshot \in {prev, cur} :
              (snapshot.madeBy = "generateDrizzleJson" /\ snapshot.prevIdArg = NoArg)
                  => snapshot.prevId = OriginUUID

\* C10 amended: in pushSingleStoreSchema the current snapshot's prevId is
\* the id of the introspected previous snapshot (both originUUID);
\* generate*Migration does not check the link, which holds there when the
\* current snapshot was created by generate*DrizzleJson with the previous
\* snapshot's id as prevId; a snapshot created by generate*DrizzleJson
\* without a prevId argument carries originUUID as prevId.
C10_PrevIdLinksInPush ==
    /\ (entry = "push" /\ dialect = "singlestore" /\ differ.called) =>
           (cur.prevId = prev.id /\ prev.id = OriginUUID)
    /\ (/\ entry = "generate" /\ differ.called
        /\ cur.madeBy = "generateDrizzleJson" /\ cur.prevIdArg = prev.id) =>
           cur.prevId = prev.id
    /\ \A snapshot \in {prev, cur} \ {NoValue} :
          (snapshot.madeBy = "generateDrizzleJson" /\ snapshot.prevIdArg = NoArg)
              => snapshot.prevId = OriginUUID

C10_Witness ==
    /\ entry = "push" /\ dialect = "singlestore" /\ differ.called
    /\ cur.madeBy = "generateDrizzleJson" /\ cur.prevId = OriginUUID
    /\ prev.madeBy = "pushIntrospect"

---------------------------------------------------------------------------
(* Single functions called directly.  `unit` names the group of functions  *)
(* a behaviour calls; the snapshots here carry their tables.               *)

MaxMade == 3        \* snapshots produced in one behaviour

\* {} : an object without properties.
EmptyMap == [k \in {} |-> NoValue]

\* { ...a, ...b }
spread(a, b) ==
    [f \in (DOMAIN a) \cup (DOMAIN b) |-> IF f \in DOMAIN b THEN b[f] ELSE a[f]]

\* const { internal, ...rest } = schema
withoutInternal(schema) == [f \in (DOMAIN schema) \ {"internal"} |-> schema[f]]

\* Values for the tables of a snapshot.
idxPlain ==
    [name |-> <<"a">>, columns |-> <<<<"a">>>>, isUnique |-> FALSE,
     using |-> Undefined, algorithm |-> Undefined, lock |-> Undefined]
idxHash ==
    [name |-> <<"a">>, columns |-> <<<<"a">>, <<"a">>>>, isUnique |-> TRUE,
     using |-> <<"h", "a", "s", "h">>, algorithm |-> Undefined, lock |-> Undefined]
pkOne == [name |-> <<"a">>, columns |-> <<<<"a">>>>]
unqOne == [name |-> <<"a">>, columns |-> <<<<"a">>, <<"a">>>>]

SampleIndexes == {EmptyMap, [k \in {"i1"} |-> idxPlain],
                  [k \in {"i1", "i2"} |-> IF k = "i1" THEN idxPlain ELSE idxHash]}
SamplePKs == {EmptyMap, [k \in {"p1"} |-> pkOne]}
SampleUniques == {EmptyMap, [k \in {"u1"} |-> unqOne]}
SampleColumns == {[k \in {"id"} |-> [name |-> "id", type |-> "int"]],
                  [k \in {"id", "x"} |-> [name |-> k, type |-> "int"]]}

\* The zod object `table`.
Table(name) ==
    [name : {name}, columns : SampleColumns, indexes : SampleIndexes,
     compositePrimaryKeys : SamplePKs, uniqueConstraints : SampleUniques]

\* record(string(), table): no table, table t1, or tables t1 and t2.
SampleTableMaps ==
    {EmptyMap}
    \cup {[k \in {"t1"} |-> t] : t \in Table("t1")}
    \cup {[k \in {"t1", "t2"} |-> IF k = "t1" THEN t
                                  ELSE [name |-> "t2",
                                        columns |-> [c \in {"id"} |-> [name |-> "id", type |-> "int"]],
                                        indexes |-> [i \in {"i1"} |-> idxPlain],
                                        compositePrimaryKeys |-> EmptyMap,
                                        uniqueConstraints |-> EmptyMap]] :
             t \in Table("t1")}

\* A few of them, where only the identity of the tables matters.
FewTableMaps ==
    {tables \in SampleTableMaps :
        \A k \in DOMAIN tables :
            /\ tables[k].indexes = EmptyMap
            /\ tables[k].compositePrimaryKeys = EmptyMap
            /\ tables[k].uniqueConstraints = EmptyMap
            /\ DOMAIN tables[k].columns = {"id"}}

NoMeta == [tables |-> EmptyMap, columns |-> EmptyMap]

\* generateSingleStoreSnapshot(prepared.tables): the serialized schema, a
\* SingleStoreSchemaInternal.
generateSingleStoreSnapshot(tables) ==
    [version |-> "1", dialect |-> "singlestore", tables |-> tables,
     _meta |-> NoMeta, internal |-> [tables |-> EmptyMap, indexes |-> EmptyMap]]

\* generateSingleStoreDrizzleJson with `const id = originUUID`.
generateSingleStoreDrizzleJsonFixedId(tables, n, prevIdArg) ==
    spread(generateSingleStoreSnapshot(tables),
           [generateDrizzleJson("singlestore", n, prevIdArg) EXCEPT !.id = OriginUUID])

\* generateSingleStoreDrizzleJson(imports, prevId):
\* { ...snapshot, id, prevId: prevId ?? originUUID }
generateSingleStoreDrizzleJson(tables, n, prevIdArg) ==
    spread(generateSingleStoreSnapshot(tables),
           generateDrizzleJson("singlestore", n, prevIdArg))

\* fromDatabase(db, databaseName, filter): the schema read from a database
\* that holds `tables`.
fromDatabase(tables) ==
    [version |-> "1", dialect |-> "singlestore", tables |-> tables,
     _meta |-> NoMeta, internal |-> [tables |-> EmptyMap, indexes |-> EmptyMap]]

\* singlestorePushIntrospect on a database that holds `tables`:
\* { id: originUUID, prevId: '', ...res } without `internal`.
introspected(tables) ==
    withoutInternal(spread(singlestorePushIntrospect, fromDatabase(tables)))

\* drySingleStore: singlestoreSchema.parse({ version: '1', dialect:
\* 'singlestore', id: originUUID, prevId: '', tables: {}, schemas: {},
\* _meta: { schemas: {}, tables: {}, columns: {} } }); parse drops the keys
\* the schema does not know.
drySingleStore ==
    [version |-> "1", dialect |-> "singlestore", id |-> OriginUUID, prevId |-> "",
     tables |-> EmptyMap, _meta |-> NoMeta,
     wellFormed |-> TRUE, madeBy |-> "drySingleStore", prevIdArg |-> NoArg]

\* The document itself: a snapshot without the fields that only record how
\* it was produced.
content(snapshot) ==
    [f \in (DOMAIN snapshot) \ {"wellFormed", "madeBy", "prevIdArg"} |-> snapshot[f]]

\* The run variables other than the count of randomUUID calls.
runIdleVars == <<entry, dialect, args, pc, prev, cur, diffVars, classification,
                 prompts, exec, dbVars, outcome, applyStatus, rendered, errorLogged>>

Units == {"ids", "scheme", "migration", "up", "index", "pushSchema", "suggestions",
          "replicas", "filter"}

UnitIdle == unit = "idle" /\ UnitsUntouched

UnitInit == SquashOff /\ RunIdle /\ UnitIdle

UnitStart ==
    /\ unit = "idle"
    /\ \E u \in Units : unit' = u
    /\ UNCHANGED <<sqVars, lateVars, runVars, idsVars, schemeVars, migrVars, upVars>>

\* ---- the producers of snapshots

IdsGenerate ==
    /\ unit = "ids" /\ Len(produced) < MaxMade
    /\ \E tables \in FewTableMaps :
          \E prevIdArg \in {NoArg} \cup {produced[k].id : k \in 1..Len(produced)} :
             produced' = Append(produced,
                            generateSingleStoreDrizzleJson(tables, uuidCount + 1, prevIdArg))
    /\ uuidCount' = uuidCount + 1
    /\ UNCHANGED <<sqVars, lateVars, runIdleVars, unit, schemeVars, migrVars, upVars>>

IdsIntrospect ==
    /\ unit = "ids" /\ Len(produced) < MaxMade
    /\ \E tables \in FewTableMaps : produced' = Append(produced, introspected(tables))
    /\ UNCHANGED <<sqVars, lateVars, runVars, unit, schemeVars, migrVars, upVars>>

IdsDry ==
    /\ unit = "ids" /\ Len(produced) < MaxMade
    /\ produced' = Append(produced, drySingleStore)
    /\ UNCHANGED <<sqVars, lateVars, runVars, unit, schemeVars, migrVars, upVars>>

\* ---- squashSingleStoreScheme

\* mapValues(obj, fn) of ../global: the object with fn applied to each value.
mapValues(obj, fn(_)) == [k \in DOMAIN obj |-> fn(obj[k])]

\* squashSingleStoreScheme with `...json` spread into the returned object.
squashSingleStoreSchemeSpreadsJson(json) ==
    spread(json,
           [version |-> "1", dialect |-> json.dialect,
            tables |-> [k \in DOMAIN json.tables |->
                          [name |-> json.tables[k].name,
                           columns |-> json.tables[k].columns,
                           indexes |-> mapValues(json.tables[k].indexes, squashIdx),
                           compositePrimaryKeys |->
                               mapValues(json.tables[k].compositePrimaryKeys, squashPK),
                           uniqueConstraints |->
                               mapValues(json.tables[k].uniqueConstraints, squashUnique)]]])

\* squashSingleStoreScheme with the unique constraints left out of the
\* squashed table.
squashSingleStoreSchemeDropsUniques(json) ==
    [version |-> "1", dialect |-> json.dialect,
     tables |-> [k \in DOMAIN json.tables |->
                   [name |-> json.tables[k].name,
                    columns |-> json.tables[k].columns,
                    indexes |-> mapValues(json.tables[k].indexes, squashIdx),
                    compositePrimaryKeys |->
                        mapValues(json.tables[k].compositePrimaryKeys, squashPK),
                    uniqueConstraints |-> EmptyMap]]]

squashSingleStoreScheme(json) ==
    LET mappedTables ==
            [k \in DOMAIN json.tables |->
                LET it == json.tables[k]
                    squashedIndexes == mapValues(it.indexes, squashIdx)
                    squashedPKs == mapValues(it.compositePrimaryKeys, squashPK)
                    squashedUniqueConstraints == mapValues(it.uniqueConstraints, squashUnique)
                IN  [name |-> it.name,
                     columns |-> it.columns,
                     indexes |-> squashedIndexes,
                     compositePrimaryKeys |-> squashedPKs,
                     uniqueConstraints |-> squashedUniqueConstraints]]
    IN  [version |-> "1", dialect |-> json.dialect, tables |-> mappedTables]

\* Values of the fields squashSingleStoreScheme is not to read.
SampleMetas == {NoMeta, [tables |-> [k \in {"t1"} |-> "t0"], columns |-> EmptyMap]}
SampleInternals ==
    {[tables |-> EmptyMap, indexes |-> EmptyMap],
     [tables |-> EmptyMap, indexes |-> [k \in {"i1"} |-> [columns |-> EmptyMap]]]}

\* SingleStoreSchema: the snapshots squashSingleStoreScheme is handed;
\* `internal` is optional, a snapshot without it has no such field.
SingleStoreSchema ==
    LET withoutInternals ==
            [version : {"1"}, dialect : {"singlestore"}, tables : SampleTableMaps,
             _meta : SampleMetas, id : {OriginUUID, "uuid-1"}, prevId : {"", OriginUUID}]
    IN  withoutInternals \cup
        {spread(json, [internal |-> i]) : json \in withoutInternals, i \in SampleInternals}

SchemeCall ==
    /\ unit = "scheme" /\ schemeIn = NoValue
    /\ \E json \in SingleStoreSchema :
          /\ schemeIn' = json
          /\ schemeOut' = squashSingleStoreScheme(json)
    /\ UNCHANGED <<sqVars, lateVars, runVars, unit, idsVars, migrVars, upVars>>

\* ---- generateSingleStoreMigration

MaxInvocations == 2     \* invocations of generateSingleStoreMigration in flight

\* The tables of the snapshots handed to generateSingleStoreMigration.
MigrTableMaps ==
    {EmptyMap,
     [k \in {"t1"} |-> [name |-> "t1", columns |-> [c \in {"id"} |-> [name |-> "id", type |-> "int"]],
                        indexes |-> EmptyMap, compositePrimaryKeys |-> EmptyMap,
                        uniqueConstraints |-> EmptyMap]],
     [k \in {"t1"} |-> [name |-> "t1", columns |-> [c \in {"id", "x"} |-> [name |-> c, type |-> "int"]],
                        indexes |-> [i \in {"i1"} |-> idxHash],
                        compositePrimaryKeys |-> [i \in {"p1"} |-> pkOne],
                        uniqueConstraints |-> [i \in {"u1"} |-> unqOne]]],
     [k \in {"t2"} |-> [name |-> "t2", columns |-> [c \in {"id"} |-> [name |-> "id", type |-> "int"]],
                        indexes |-> [i \in {"i1"} |-> idxPlain], compositePrimaryKeys |-> EmptyMap,
                        uniqueConstraints |-> EmptyMap]]}

\* DrizzleSingleStoreSnapshotJSON documents a caller holds: documents of
\* the schema, one with a key the schema does not know, and one of another
\* version.
MigrDocuments ==
    {[version |-> "1", dialect |-> "singlestore", tables |-> tables, _meta |-> NoMeta,
      id |-> "uuid-1", prevId |-> OriginUUID] : tables \in MigrTableMaps}
    \cup {[version |-> "1", dialect |-> "singlestore", tables |-> EmptyMap, _meta |-> NoMeta,
           id |-> OriginUUID, prevId |-> "", schemas |-> EmptyMap],
          [version |-> "0", dialect |-> "singlestore", tables |-> EmptyMap, _meta |-> NoMeta,
           id |-> "uuid-1", prevId |-> OriginUUID]}

Refs == {"A", "B"}

\* The keys of `schema` (schemaInternal merged with schemaHash).
SchemaKeys == {"version", "dialect", "tables", "_meta", "internal", "id", "prevId"}

\* singlestoreSchema.parse(doc): a new object with the keys of the schema
\* (keys the schema does not know are dropped: the merge with schemaHash
\* leaves the object non-strict), or a throw.
singlestoreSchemaParse(doc) ==
    IF /\ {"version", "dialect", "tables", "_meta", "id", "prevId"} \subseteq DOMAIN doc
       /\ doc.version = "1"
       /\ doc.dialect = "singlestore"
    THEN [f \in (DOMAIN doc) \cap SchemaKeys |-> doc[f]]
    ELSE Threw

\* The order in which the keys of an object are enumerated.
KeyOrder == <<"t1", "t2", "id", "x", "i1", "i2", "p1", "u1">>
ordered(S) == SelectSeq(KeyOrder, LAMBDA k : k \in S)

NoStatement == <<"none", "", "", "">>

\* Entity matcher for one category of one table: a key only in prev is
\* dropped, a key only in cur is created, a key in both whose values
\* differ is altered.
entityStatements(kind, t, p, c) ==
    LET keys == ordered((DOMAIN p) \cup (DOMAIN c))
        stmt(k) == IF k \notin DOMAIN c THEN <<"drop", kind, t, k>>
                   ELSE IF k \notin DOMAIN p THEN <<"create", kind, t, k>>
                   ELSE IF p[k] # c[k] THEN <<"alter", kind, t, k>>
                   ELSE NoStatement
    IN  SelectSeq([i \in 1..Len(keys) |-> stmt(keys[i])], LAMBDA st : st # NoStatement)

tableStatements(t, p, c) ==
    entityStatements("column", t, p.columns, c.columns)
    \o entityStatements("index", t, p.indexes, c.indexes)
    \o entityStatements("pk", t, p.compositePrimaryKeys, c.compositePrimaryKeys)
    \o entityStatements("unique", t, p.uniqueConstraints, c.uniqueConstraints)

RECURSIVE concat(_)
concat(lists) == IF lists = <<>> THEN <<>> ELSE Head(lists) \o concat(Tail(lists))

\* The tables resolver is asked: tables were deleted and tables were created.
ambiguous(squashedPrev, squashedCur) ==
    /\ (DOMAIN squashedPrev.tables) \ (DOMAIN squashedCur.tables) # {}
    /\ (DOMAIN squashedCur.tables) \ (DOMAIN squashedPrev.tables) # {}

\* applySingleStoreSnapshotsDiff(squashedPrev, squashedCur, tablesResolver,
\* columnsResolver, validatedPrev, validatedCur).sqlStatements, with the
\* tables resolver's decision as `decision`.  With the table keys t1 and t2
\* an ambiguous case has one deleted and one created table; the columns of
\* the sampled tables never leave the columns resolver a choice.
applySingleStoreSnapshotsDiff(squashedPrev, squashedCur, decision, validatedPrev, validatedCur) ==
    LET P == squashedPrev.tables
        C == squashedCur.tables
        deleted == (DOMAIN P) \ (DOMAIN C)
        created == (DOMAIN C) \ (DOMAIN P)
        kept == ordered((DOMAIN P) \cap (DOMAIN C))
        altered == concat([i \in 1..Len(kept) |-> tableStatements(kept[i], P[kept[i]], C[kept[i]])])
        creates == [i \in 1..Len(ordered(created)) |->
                       <<"create", "table", ordered(created)[i], ordered(created)[i]>>]
        drops == [i \in 1..Len(ordered(deleted)) |->
                       <<"drop", "table", ordered(deleted)[i], ordered(deleted)[i]>>]
    IN  IF ambiguous(squashedPrev, squashedCur) /\ decision = "renamed"
        THEN LET from == CHOOSE t \in deleted : TRUE
                 to == CHOOSE t \in created : TRUE
             IN  <<<<"rename", "table", from, to>>>>
                 \o tableStatements(to, [P[from] EXCEPT !.name = to], C[to])
                 \o altered
        ELSE creates \o drops \o altered

NoInvocation ==
    [pc |-> "import", validatedPrev |-> NoValue, validatedCur |-> NoValue,
     squashedPrev |-> NoValue, squashedCur |-> NoValue, decision |-> "none",
     result |-> NoValue]

\* A caller comes to hold two snapshot documents.
MigrSetup ==
    /\ unit = "migration" /\ heap = <<>>
    /\ \E a, b \in MigrDocuments :
          /\ heap' = [r \in Refs |-> IF r = "A" THEN a ELSE b]
          /\ inputs' = [r \in Refs |-> IF r = "A" THEN a ELSE b]
    /\ UNCHANGED <<sqVars, lateVars, runVars, unit, idsVars, schemeVars, upVars, inv>>

\* generateSingleStoreMigration(prev, cur) up to `await import(...)`.
MigrCall ==
    /\ unit = "migration" /\ heap # <<>>
    /\ Len(inv) < MaxInvocations
    /\ \E p, c \in Refs :
          inv' = Append(inv, spread(NoInvocation, [prev |-> p, cur |-> c]))
    /\ UNCHANGED <<sqVars, lateVars, runVars, unit, idsVars, schemeVars, upVars, inputs, heap>>

\* From the import to the call of the differ, with
\* `const validatedPrev = prev` and the squashing of prev done on the
\* caller's object, which loses `internal`.
MigrPrepareInPlace ==
    /\ unit = "migration"
    /\ \E i \in 1..Len(inv) :
          /\ inv[i].pc = "import"
          /\ LET vp == singlestoreSchemaParse(heap[inv[i].prev])
                 vc == singlestoreSchemaParse(heap[inv[i].cur])
             IN  IF vp = Threw \/ vc = Threw
                 THEN /\ inv' = [inv EXCEPT ![i].pc = "threw", ![i].result = Threw]
                      /\ heap' = heap
                 ELSE /\ inv' = [inv EXCEPT ![i].pc = "differ",
                                            ![i].validatedPrev = vp,
                                            ![i].validatedCur = vc,
                                            ![i].squashedPrev = squashSingleStoreScheme(vp),
                                            ![i].squashedCur = squashSingleStoreScheme(vc)]
                      /\ heap' = [heap EXCEPT ![inv[i].prev] =
                                      [f \in {"version", "dialect", "tables"} |-> vp[f]]]
    /\ UNCHANGED <<sqVars, lateVars, runVars, unit, idsVars, schemeVars, upVars, inputs>>

\* From the import to the call of the differ, with
\* `const squashedPrev = squashSingleStoreScheme(drySingleStore)`.
MigrPrepareFromDry ==
    /\ unit = "migration"
    /\ \E i \in 1..Len(inv) :
          /\ inv[i].pc = "import"
          /\ LET vp == singlestoreSchemaParse(heap[inv[i].prev])
                 vc == singlestoreSchemaParse(heap[inv[i].cur])
             IN  IF vp = Threw \/ vc = Threw
                 THEN inv' = [inv EXCEPT ![i].pc = "threw", ![i].result = Threw]
                 ELSE inv' = [inv EXCEPT ![i].pc = "differ",
                                         ![i].validatedPrev = vp,
                                         ![i].validatedCur = vc,
                                         ![i].squashedPrev = squashSingleStoreScheme(content(drySingleStore)),
                                         ![i].squashedCur = squashSingleStoreScheme(vc)]
    /\ UNCHANGED <<sqVars, lateVars, runVars, unit, idsVars, schemeVars, upVars, inputs, heap>>

\* From the import to the call of the differ: singlestoreSchema.parse(prev),
\* singlestoreSchema.parse(cur) (either may throw), squashSingleStoreScheme
\* of both results.
MigrPrepare ==
    /\ unit = "migration"
    /\ \E i \in 1..Len(inv) :
          /\ inv[i].pc = "import"
          /\ LET vp == singlestoreSchemaParse(heap[inv[i].prev])
                 vc == singlestoreSchemaParse(heap[inv[i].cur])
             IN  IF vp = Threw \/ vc = Threw
                 THEN inv' = [inv EXCEPT ![i].pc = "threw", ![i].result = Threw]
                 ELSE inv' = [inv EXCEPT ![i].pc = "differ",
                                         ![i].validatedPrev = vp,
                                         ![i].validatedCur = vc,
                                         ![i].squashedPrev = squashSingleStoreScheme(vp),
                                         ![i].squashedCur = squashSingleStoreScheme(vc)]
    /\ UNCHANGED <<sqVars, lateVars, runVars, unit, idsVars, schemeVars, upVars, inputs, heap>>

\* The differ awaits tablesResolver, which answers.
MigrResolve ==
    /\ unit = "migration"
    /\ \E i \in 1..Len(inv) :
          /\ inv[i].pc = "differ"
          /\ ambiguous(inv[i].squashedPrev, inv[i].squashedCur)
          /\ \E answer \in {"created", "renamed"} :
                inv' = [inv EXCEPT ![i].pc = "resolved",
                                   ![i].decision =
                                       IF interactiveResolver(TRUE, TRUE, answer).renamed = 1
                                       THEN "renamed" ELSE "created"]
    /\ UNCHANGED <<sqVars, lateVars, runVars, unit, idsVars, schemeVars, upVars, inputs, heap>>

\* The differ returns and generateSingleStoreMigration returns sqlStatements.
MigrReturn ==
    /\ unit = "migration"
    /\ \E i \in 1..Len(inv) :
          /\ \/ inv[i].pc = "resolved"
             \/ inv[i].pc = "differ" /\ ~ambiguous(inv[i].squashedPrev, inv[i].squashedCur)
          /\ inv' = [inv EXCEPT ![i].pc = "done",
                                ![i].result =
                                    [sqlStatements |->
                                        applySingleStoreSnapshotsDiff(
                                            inv[i].squashedPrev, inv[i].squashedCur,
                                            inv[i].decision,
                                            inv[i].validatedPrev, inv[i].validatedCur)]]
    /\ UNCHANGED <<sqVars, lateVars, runVars, unit, idsVars, schemeVars, upVars, inputs, heap>>

\* ---- upPgSnapshot

\* The values of snapshot.version: strings and, as a caller may hand in any
\* Record<string, unknown>, a number and no version at all.
JsString(text) == [type |-> "string", value |-> text]
Versions ==
    {JsString(v) : v \in {"4", "5", "6", "7", "8"}}
    \cup {[type |-> "number", value |-> "5"], [type |-> "undefined", value |-> ""]}

\* x === 'text'
strictEquals(x, text) == x.type = "string" /\ x.value = text

\* The snapshots handed to upPgSnapshot; `passes` records the upgrade passes
\* a snapshot went through, in order.
UpSnapshots == [version : Versions, dialect : {"postgresql"}, passes : {<<>>}]

\* updateUpToV6 of cli/commands/pgUp: the snapshot as a version '6' snapshot.
upPgV6(snapshot) ==
    [snapshot EXCEPT !.version = JsString("6"), !.passes = Append(@, "v6")]

\* updateUpToV7 of cli/commands/pgUp: the snapshot as a version '7' snapshot.
upPgV7(snapshot) ==
    [snapshot EXCEPT !.version = JsString("7"), !.passes = Append(@, "v7")]

\* upPgSnapshot with the passes for version '5' in the other order.
upPgSnapshotV7First(snapshot) ==
    IF strictEquals(snapshot.version, "5") THEN upPgV6(upPgV7(snapshot))
    ELSE IF strictEquals(snapshot.version, "6") THEN upPgV7(snapshot)
    ELSE snapshot

upPgSnapshot(snapshot) ==
    IF strictEquals(snapshot.version, "5") THEN upPgV7(upPgV6(snapshot))
    ELSE IF strictEquals(snapshot.version, "6") THEN upPgV7(snapshot)
    ELSE snapshot

\* upPgSnapshot(snapshot) on a snapshot a caller holds.
UpCall ==
    /\ unit = "up" /\ upIn = NoValue
    /\ \E snapshot \in UpSnapshots :
          /\ upIn' = snapshot
          /\ upOut' = upPgSnapshot(snapshot)
    /\ UNCHANGED <<sqVars, lateVars, runVars, unit, idsVars, schemeVars, migrVars>>

\* upPgSnapshot on the snapshot the previous call returned.
UpAgain ==
    /\ unit = "up" /\ upOut # NoValue
    /\ upIn' = upOut
    /\ upOut' = upPgSnapshot(upOut)
    /\ UNCHANGED <<sqVars, lateVars, runVars, unit, idsVars, schemeVars, migrVars>>

\* ---- IndexBuilder

MaxOptionCalls == 3     \* calls of using, algorythm and lock on one builder
MaxBuilt == 2           \* Index objects built from one builder

\* new IndexBuilderOn(name, unique)
IndexBuilderOn(name, isUnique) == [name |-> name, unique |-> isUnique]

\* index(name), uniqueIndex(name)
index(name) == IndexBuilderOn(name, FALSE)
uniqueIndex(name) == IndexBuilderOn(name, TRUE)

\* IndexBuilderOn.on(...columns): new IndexBuilder(this.name, columns,
\* this.unique), whose config is { name, columns, unique }; a property the
\* config does not have reads as undefined.
on(builderOn, columns) ==
    [name |-> builderOn.name, columns |-> columns, unique |-> builderOn.unique,
     using |-> Undefined, algorythm |-> Undefined, lock |-> Undefined]

\* IndexBuilder.using, .algorythm, .lock: this.config.<option> = <argument>
using(config, value) == [config EXCEPT !.using = value]
algorythm(config, value) == [config EXCEPT !.algorythm = value]
lock(config, value) == [config EXCEPT !.lock = value]

\* new Index(config, table): this.config = { ...config, table }
newIndex(config, table) == spread(config, [table |-> table])

\* The arguments of the option calls: the values of the type and undefined.
UsingArgs == UsingEnum \cup {Undefined}
AlgorythmArgs == AlgorithmEnum \cup {Undefined}
LockArgs == LockEnum \cup {Undefined}

exceptIndex == <<sqVars, runVars, unit, idsVars, schemeVars, migrVars, upVars, replicaVars>>

\* index(name).on(...columns) or uniqueIndex(name).on(...columns)
IndexOn ==
    /\ unit = "index" /\ builder = NoValue
    /\ \E fn \in {"index", "uniqueIndex"}, name \in {"uniqueClass"},
          columns \in {<<"class", "subClass">>} :
          /\ builder' = on(IF fn = "index" THEN index(name) ELSE uniqueIndex(name), columns)
          /\ called' = <<[fn |-> fn, name |-> name, columns |-> columns]>>
    /\ UNCHANGED <<exceptIndex, optionCalls, built>>

IndexUsing ==
    /\ unit = "index" /\ builder # NoValue
    /\ Len(optionCalls) < MaxOptionCalls
    /\ \E value \in UsingArgs :
          /\ builder' = using(builder, value)
          /\ optionCalls' = Append(optionCalls, <<"using", value>>)
    /\ UNCHANGED <<exceptIndex, called, built>>

IndexAlgorythm ==
    /\ unit = "index" /\ builder # NoValue
    /\ Len(optionCalls) < MaxOptionCalls
    /\ \E value \in AlgorythmArgs :
          /\ builder' = algorythm(builder, value)
          /\ optionCalls' = Append(optionCalls, <<"algorythm", value>>)
    /\ UNCHANGED <<exceptIndex, called, built>>

\* IndexBuilder.lock where every Index built holds the builder's own config
\* object (this.config = config).
IndexLockShared ==
    /\ unit = "index" /\ builder # NoValue
    /\ Len(optionCalls) < MaxOptionCalls
    /\ \E value \in LockArgs :
          /\ builder' = lock(builder, value)
          /\ optionCalls' = Append(optionCalls, <<"lock", value>>)
          /\ built' = [i \in 1..Len(built) |->
                          [built[i] EXCEPT !.index = lock(built[i].index, value)]]
    /\ UNCHANGED <<exceptIndex, called>>

IndexLock ==
    /\ unit = "index" /\ builder # NoValue
    /\ Len(optionCalls) < MaxOptionCalls
    /\ \E value \in LockArgs :
          /\ builder' = lock(builder, value)
          /\ optionCalls' = Append(optionCalls, <<"lock", value>>)
    /\ UNCHANGED <<exceptIndex, called, built>>

\* IndexBuilder.build(table); `after` is the number of option calls made
\* before it.
IndexBuild ==
    /\ unit = "index" /\ builder # NoValue
    /\ Len(built) < MaxBuilt
    /\ built' = Append(built, [index |-> newIndex(builder, "users"),
                               after |-> Len(optionCalls)])
    /\ UNCHANGED <<exceptIndex, called, builder, optionCalls>>

\* ---- pushSchema: the two snapshots

exceptCalled == <<sqVars, runVars, unit, idsVars, schemeVars, migrVars, upVars,
                  indexVars, replicaVars>>

\* The tables an application declares or a database holds, each in a
\* database schema.
PgTables == [schema : {"public", "other"}, name : {"users"}]

\* The schemaFilters argument: absent, or a list of schema names.
SchemaFilterArgs == {Undefined, <<"public">>, <<"other">>, <<"public", "other">>}

inList(x, list) == \E i \in 1..Len(list) : list[i] = x

\* generatePgSnapshot(tables, enums, schemas, sequences, schemaFilters): the
\* tables of the schemas named by schemaFilters, every table without it.
generatePgSnapshot(tables, schemaFilters) ==
    IF schemaFilters = Undefined THEN tables
    ELSE {t \in tables : inList(t.schema, schemaFilters)}

\* generateDrizzleJson(imports, prevId, schemaFilters) with the tables of
\* the snapshot.
generatePgDrizzleJson(imports, n, prevIdArg, schemaFilters) ==
    spread([tables |-> generatePgSnapshot(imports, schemaFilters)],
           generateDrizzleJson("pg", n, prevIdArg))

\* pgPushIntrospect(db, filters, schemaFilters).schema on a database that
\* holds dbTables: the tables of the schemas named.
pgPushIntrospect(dbTables, filters, schemaFilters) ==
    spread([tables |-> {t \in dbTables : inList(t.schema, schemaFilters)}],
           otherPushIntrospect("pg"))

\* schemaFilters ?? ['public']
orPublic(schemaFilters) == IF schemaFilters = Undefined THEN <<"public">> ELSE schemaFilters

\* pushSchema(imports, drizzleInstance, schemaFilters) up to the two
\* snapshots: cur = generateDrizzleJson(imports) and the introspected prev.
PushSchemaSnapshots ==
    /\ unit = "pushSchema" /\ called = <<>>
    /\ \E imports \in SUBSET PgTables, dbTables \in SUBSET PgTables,
          schemaFilters \in SchemaFilterArgs :
          called' = <<[fn |-> "pushSchema", imports |-> imports, dbTables |-> dbTables,
                       schemaFilters |-> schemaFilters,
                       cur |-> generatePgDrizzleJson(imports, 1, NoArg, Undefined),
                       prev |-> pgPushIntrospect(dbTables, <<>>, orPublic(schemaFilters))]>>
    /\ UNCHANGED exceptCalled

\* ---- the sqlite classifier's arguments

\* The tables of a squashed sqlite snapshot.
SqliteTableSets == SUBSET {"users", "posts"}

\* No call so far, or only calls for the pair (squashedPrev, squashedCur).
samePair(squashedPrev, squashedCur) ==
    \A i \in 1..Len(called) :
        called[i].squashedPrev = squashedPrev /\ called[i].squashedCur = squashedCur

notYet(fn) == \A i \in 1..Len(called) : called[i].fn # fn

\* pushSQLiteSchema: logSuggestionsAndReturn(db, statements, squashedPrev,
\* squashedCur, _meta!)
ApiSuggestions ==
    /\ unit = "suggestions" /\ notYet("pushSQLiteSchema")
    /\ \E squashedPrev, squashedCur \in SqliteTableSets :
          /\ squashedPrev # squashedCur
          /\ samePair(squashedPrev, squashedCur)
          /\ called' = Append(called, [fn |-> "pushSQLiteSchema",
                                       squashedPrev |-> squashedPrev,
                                       squashedCur |-> squashedCur,
                                       json1 |-> squashedPrev, json2 |-> squashedCur])
    /\ UNCHANGED exceptCalled

\* sqlitePush: sqliteSuggestions(db, statements.statements,
\* statements.squashedCur, statements.squashedPrev, statements.meta!)
CliSuggestions ==
    /\ unit = "suggestions" /\ notYet("sqlitePush")
    /\ \E squashedPrev, squashedCur \in SqliteTableSets :
          /\ squashedPrev # squashedCur
          /\ samePair(squashedPrev, squashedCur)
          /\ called' = Append(called, [fn |-> "sqlitePush",
                                       squashedPrev |-> squashedPrev,
                                       squashedCur |-> squashedCur,
                                       json1 |-> squashedCur, json2 |-> squashedPrev])
    /\ UNCHANGED exceptCalled

\* ---- withReplicas

MaxReplicas == 2        \* databases in the replicas list
MaxDispatched == 3      \* calls on the object withReplicas returned
RandomSteps == 4        \* Math.random() returns k / RandomSteps, 0 <= k < RandomSteps

exceptReplicas == <<sqVars, runVars, unit, idsVars, schemeVars, migrVars, upVars,
                    callVars, indexVars>>

Replicas == {"replica1", "replica2"}
Databases == {"primary", "other"} \cup Replicas

\* replicas: [Q, ...Q[]]
ReplicaLists == ListsUpTo(Replicas, MaxReplicas) \ {<<>>}

\* The default getReplica:
\* () => replicas[Math.floor(Math.random() * replicas.length)]!
\* with Math.random() = k / RandomSteps (lists are counted from 1 here).
defaultGetReplica(replicas, k) == replicas[((k * Len(replicas)) \div RandomSteps) + 1]

\* What one call of getReplica(replicas) may return: the default picks by
\* Math.random(), a function of the caller may return any database.
getReplica(w) ==
    IF w.getReplica = "default"
    THEN {defaultGetReplica(w.replicas, k) : k \in 0..(RandomSteps - 1)}
    ELSE Databases

ReadMethods == {"select", "selectDistinct", "with", "query"}
WriteMethods == {"update", "insert", "delete", "execute", "transaction", "$primary"}

\* withReplicas(primary, replicas, getReplica)
WithReplicasCall ==
    /\ unit = "replicas" /\ wr = NoValue
    /\ \E replicas \in ReplicaLists, kind \in {"default", "custom"} :
          wr' = [primary |-> "primary", replicas |-> replicas, getReplica |-> kind]
    /\ UNCHANGED <<exceptReplicas, dispatched>>

\* select, selectDistinct, with and the getter of query with the database
\* taken from the head of the list when the call is made, without getReplica.
ReplicaReadFirst ==
    /\ unit = "replicas" /\ wr # NoValue
    /\ Len(dispatched) < MaxDispatched
    /\ \E method \in ReadMethods :
          dispatched' = Append(dispatched, [method |-> method, target |-> wr.replicas[1],
                                            got |-> <<>>])
    /\ UNCHANGED <<exceptReplicas, wr>>

\* select, selectDistinct, with: (...args) => getReplica(replicas).<method>(...args);
\* get query() { return getReplica(replicas).query }
ReplicaRead ==
    /\ unit = "replicas" /\ wr # NoValue
    /\ Len(dispatched) < MaxDispatched
    /\ \E method \in ReadMethods, db \in getReplica(wr) :
          dispatched' = Append(dispatched, [method |-> method, target |-> db,
                                            got |-> <<db>>])
    /\ UNCHANGED <<exceptReplicas, wr>>

\* update, insert, delete, execute and transaction written like select:
\* (...args) => getReplica(replicas).<method>(...args)
PrimaryWriteToReplica ==
    /\ unit = "replicas" /\ wr # NoValue
    /\ Len(dispatched) < MaxDispatched
    /\ \E method \in WriteMethods, db \in getReplica(wr) :
          dispatched' = Append(dispatched, [method |-> method, target |-> db,
                                            got |-> <<db>>])
    /\ UNCHANGED <<exceptReplicas, wr>>

\* update, insert, delete, execute, transaction:
\* (...args) => primary.<method>(...args); $primary: primary
PrimaryWrite ==
    /\ unit = "replicas" /\ wr # NoValue
    /\ Len(dispatched) < MaxDispatched
    /\ \E method \in WriteMethods :
          dispatched' = Append(dispatched, [method |-> method, target |-> wr.primary,
                                            got |-> <<>>])
    /\ UNCHANGED <<exceptReplicas, wr>>

\* ---- the table filter of singlestorePushIntrospect

MaxFilters == 2         \* patterns in the filters list

Negations == {<<>>, <<"!">>, <<"!", "!">>}
Globs == {<<"a">>, <<"b">>, <<"a", "*">>, <<"*">>}
FilterPatterns == {n \o g : n \in Negations, g \in Globs}
TableNames == {<<"a">>, <<"b">>, <<"a", "b">>}

\* minimatch, Minimatch.parseNegate: every leading '!' toggles negate and is
\* taken off the pattern.
RECURSIVE parseNegate(_)
parseNegate(pattern) ==
    IF pattern # <<>> /\ Head(pattern) = "!"
    THEN LET rest == parseNegate(Tail(pattern))
         IN  [negate |-> ~rest.negate, pattern |-> rest.pattern]
    ELSE [negate |-> FALSE, pattern |-> pattern]

\* minimatch, the glob itself: '*' stands for any run of characters, every
\* other character for itself.
RECURSIVE globMatch(_, _)
globMatch(pattern, f) ==
    IF pattern = <<>> THEN f = <<>>
    ELSE IF Head(pattern) = "*"
         THEN globMatch(Tail(pattern), f) \/ (f # <<>> /\ globMatch(pattern, Tail(f)))
         ELSE f # <<>> /\ Head(f) = Head(pattern) /\ globMatch(Tail(pattern), Tail(f))

\* new Minimatch(it)
Minimatch(it) == parseNegate(it)

\* minimatch, Minimatch.match: a hit returns !negate, no hit returns negate.
match(matcher, f) == IF globMatch(matcher.pattern, f) THEN ~matcher.negate ELSE matcher.negate

\* const matchers = filters.map((it) => new Minimatch(it))
matchersOf(filters) == [i \in 1..Len(filters) |-> Minimatch(filters[i])]

\* The loop of filter without its `if (matcher.negate)` branch.
RECURSIVE flagsWithoutNegate(_, _)
flagsWithoutNegate(matchers, tableName) ==
    IF matchers = <<>> THEN <<>>
    ELSE (IF match(Head(matchers), tableName) THEN <<TRUE>> ELSE <<>>)
         \o flagsWithoutNegate(Tail(matchers), tableName)

\* for (let matcher of matchers): flags.push(false) for a negated matcher
\* that does not match, flags.push(true) for a matcher that matches.
RECURSIVE flagsOf(_, _)
flagsOf(matchers, tableName) ==
    IF matchers = <<>> THEN <<>>
    ELSE (IF Head(matchers).negate /\ ~match(Head(matchers), tableName)
          THEN <<FALSE>> ELSE <<>>)
         \o (IF match(Head(matchers), tableName) THEN <<TRUE>> ELSE <<>>)
         \o flagsOf(Tail(matchers), tableName)

\* filter with flags collected without the negate branch.
filterWithoutNegate(matchers, tableName) ==
    IF Len(matchers) = 0 THEN TRUE
    ELSE LET flags == flagsWithoutNegate(matchers, tableName)
         IN  IF Len(flags) > 0 THEN \A i \in 1..Len(flags) : flags[i] ELSE FALSE

\* const filter = (tableName) => ...
filter(matchers, tableName) ==
    IF Len(matchers) = 0 THEN TRUE
    ELSE LET flags == flagsOf(matchers, tableName)
         IN  IF Len(flags) > 0 THEN \A i \in 1..Len(flags) : flags[i] ELSE FALSE

\* singlestorePushIntrospect(db, databaseName, filters); fromDatabase asks
\* filter about a table.
FilterCall ==
    /\ unit = "filter" /\ called = <<>>
    /\ \E filters \in ListsUpTo(FilterPatterns, MaxFilters), tableName \in TableNames :
          called' = <<[fn |-> "filter", filters |-> filters, tableName |-> tableName,
                       result |-> filter(matchersOf(filters), tableName)]>>
    /\ UNCHANGED exceptCalled

UnitNext ==
    \/ UnitStart
    \/ IdsGenerate
    \/ IdsIntrospect
    \/ IdsDry
    \/ SchemeCall
    \/ MigrSetup
    \/ MigrCall
    \/ MigrPrepare
    \/ MigrResolve
    \/ MigrReturn
    \/ UpCall
    \/ UpAgain
    \/ IndexOn
    \/ IndexUsing
    \/ IndexAlgorythm
    \/ IndexLock
    \/ IndexBuild
    \/ PushSchemaSnapshots
    \/ ApiSuggestions
    \/ CliSuggestions
    \/ WithReplicasCall
    \/ ReplicaRead
    \/ PrimaryWrite
    \/ FilterCall

UnitSpec == UnitInit /\ [][UnitNext]_vars

---------------------------------------------------------------------------
(* Properties of the snapshot ids.                                         *)

\* C11 as stated: no two different snapshots produced by
\* generate*DrizzleJson, by singlestorePushIntrospect (for any database
\* state) or as drySingleStore carry the same id.
C11_IdUniquePerSnapshot ==
    \A i, j \in 1..Len(produced) :
        (content(produced[i]) # content(produced[j])) => (produced[i].id # produced[j].id)

\* C11 amended: the snapshots produced by generate*DrizzleJson carry
\* pairwise different ids, none of them originUUID; every snapshot produced
\* by singlestorePushIntrospect and drySingleStore carry the id originUUID.
C11_GeneratedIdsUnique ==
    \A i, j \in 1..Len(produced) :
        /\ (produced[i].madeBy = "generateDrizzleJson") =>
               /\ produced[i].id # OriginUUID
               /\ (i # j) => (produced[i].id # produced[j].id)
        /\ (produced[i].madeBy \in {"pushIntrospect", "drySingleStore"}) =>
               produced[i].id = OriginUUID

C11_Witness ==
    /\ Len(produced) = 3
    /\ produced[1].madeBy = "generateDrizzleJson" /\ produced[2].madeBy = "generateDrizzleJson"
    /\ produced[3].madeBy = "pushIntrospect"
    /\ produced[1].tables = produced[2].tables

---------------------------------------------------------------------------
(* Properties of the resolvers and of the classifier.                      *)

\* C12: the push*Schema functions run the differ with an automatic
\* resolver, not the interactive one of the CLI: it never waits for the
\* operator and reports no rename.
C12_PushResolverIsAutomatic ==
    (entry = "push") =>
        /\ differ.prompted = 0
        /\ differ.renamed = 0

\* C13 as stated: when the classifier fails during a push, the outcome is
\* treated as requiring approval: the run goes on to ask for approval (the
\* CLI shows the data-loss prompt, push*Schema returns to its caller), and
\* no statement is sent without it.
C13_ClassifierFailureAsksApproval ==
    (entry \in {"push", "cli"} /\ classification = Threw) =>
        /\ sent = <<>>
        /\ \/ entry = "push" /\ outcome = "returned"
           \/ entry = "cli" /\ \E i \in 1..Len(prompts) : prompts[i][1] = "dataLoss"

\* C13 amended: when the classifier fails during a push, the push ends
\* there: push*Schema and sqlitePush reject, mysqlPush, singlestorePush and
\* pgPush log the error and return; no approval is asked, apply is never
\* available and no statement is sent.
C13_ClassifierFailureEndsPush ==
    (entry \in {"push", "cli"} /\ classification = Threw) =>
        /\ pc = "done"
        /\ sent = <<>> /\ prompts = <<>> /\ applyStatus = "none"
        /\ IF entry = "push" \/ dialect = "sqlite"
           THEN outcome = "rejected" /\ ~errorLogged
           ELSE outcome = "returned" /\ errorLogged

C13_Witness ==
    /\ entry = "push" /\ classification = Threw
    /\ nStatements > 0 /\ outcome = "rejected"

\* The statements of the migration the database executed, in order
\* ('begin', 'commit' and 'rollback' left out).
executedStatements ==
    SelectSeq(executed, LAMBDA sql : sql \notin {"begin", "commit", "rollback"})

\* What a CLI push command is to execute: statementsToExecute followed by
\* the rendered statements (mysqlPush and singlestorePush send each list
\* without its repetitions).
toExecute(d, c) ==
    IF d \in {"mysql", "singlestore"}
    THEN unique(c.statementsToExecute) \o unique(c.filteredSqlStatements)
    ELSE c.statementsToExecute

\* C14: with force = true a CLI push command shows no prompt, whatever
\* strict and shouldAskForApprove are, and when it reports 'Changes applied'
\* it has executed every statement of statementsToExecute followed by every
\* rendered statement.
C14_ForceExecutesEverything ==
    (entry = "cli" /\ args.force) =>
        /\ prompts = <<>>
        /\ (\E i \in 1..Len(rendered) : rendered[i] = "Changes applied") =>
               /\ classified
               /\ executedStatements = toExecute(dialect, classification)

\* The same for every dialect and driver except sqlitePush with a driver
\* other than 'turso'.
C14_ExceptOtherDriver ==
    (args.driver # "other") => C14_ForceExecutesEverything

---------------------------------------------------------------------------
(* Properties of squashSingleStoreScheme and generateSingleStoreMigration.  *)

\* C19: squashSingleStoreScheme keeps the structure of the snapshot: the
\* squashed snapshot has exactly the input's table keys; each squashed
\* table keeps the name and the columns; its indexes, compositePrimaryKeys
\* and uniqueConstraints have exactly the input's keys, each value the
\* squashed string of the input's value under that key.
C19_SquashKeepsStructure ==
    (unit = "scheme" /\ schemeOut # NoValue) =>
        /\ DOMAIN schemeOut.tables = DOMAIN schemeIn.tables
        /\ \A k \in DOMAIN schemeIn.tables :
              LET t == schemeIn.tables[k]
                  q == schemeOut.tables[k]
              IN  /\ DOMAIN q = {"name", "columns", "indexes", "compositePrimaryKeys",
                                 "uniqueConstraints"}
                  /\ q.name = t.name
                  /\ q.columns = t.columns
                  /\ DOMAIN q.indexes = DOMAIN t.indexes
                  /\ \A i \in DOMAIN t.indexes : q.indexes[i] = squashIdx(t.indexes[i])
                  /\ DOMAIN q.compositePrimaryKeys = DOMAIN t.compositePrimaryKeys
                  /\ \A i \in DOMAIN t.compositePrimaryKeys :
                        q.compositePrimaryKeys[i] = squashPK(t.compositePrimaryKeys[i])
                  /\ DOMAIN q.uniqueConstraints = DOMAIN t.uniqueConstraints
                  /\ \A i \in DOMAIN t.uniqueConstraints :
                        q.uniqueConstraints[i] = squashUnique(t.uniqueConstraints[i])

C19_Witness ==
    /\ unit = "scheme" /\ schemeOut # NoValue
    /\ DOMAIN schemeIn.tables = {"t1", "t2"}
    /\ DOMAIN schemeIn.tables["t1"].indexes = {"i1", "i2"}
    /\ DOMAIN schemeIn.tables["t1"].uniqueConstraints = {"u1"}
    /\ schemeOut.tables["t1"].indexes["i2"] = squashIdx(idxHash)

\* What generateSingleStoreMigration returns for the documents prev and cur
\* and a decision of the tables resolver.
migrationOf(prevDoc, curDoc, decision) ==
    LET vp == singlestoreSchemaParse(prevDoc)
        vc == singlestoreSchemaParse(curDoc)
    IN  IF vp = Threw \/ vc = Threw THEN Threw
        ELSE [sqlStatements |->
                 applySingleStoreSnapshotsDiff(squashSingleStoreScheme(vp),
                                               squashSingleStoreScheme(vc), decision, vp, vc)]

finished(i) == inv[i].pc \in {"done", "threw"}

\* C18: squashSingleStoreScheme and generateSingleStoreMigration leave
\* their input snapshots as they were (at every point of every
\* interleaving of the invocations the caller's documents equal their
\* values before the calls), and what an invocation returns is what its own
\* two snapshots and its own resolver decision give, whatever the other
\* invocation does.
C18_InputsNotModified ==
    (unit = "migration") =>
          /\ heap = inputs
          /\ \A i \in 1..Len(inv) :
                (inv[i].squashedPrev # NoValue) =>
                    /\ inv[i].validatedPrev = singlestoreSchemaParse(inputs[inv[i].prev])
                    /\ inv[i].validatedCur = singlestoreSchemaParse(inputs[inv[i].cur])
          /\ \A i \in 1..Len(inv) :
                finished(i) =>
                    inv[i].result =
                        migrationOf(inputs[inv[i].prev], inputs[inv[i].cur], inv[i].decision)

C18_Witness ==
    /\ unit = "migration" /\ Len(inv) = 2
    /\ inv[1].pc = "done" /\ inv[2].pc = "done"
    /\ inv[1].prev = inv[2].cur /\ inv[1].cur = inv[2].prev
    /\ inv[1].result.sqlStatements # <<>>
    /\ inv[2].result.sqlStatements # inv[1].result.sqlStatements
    /\ inv[1].squashedPrev.tables # inv[1].validatedPrev.tables

\* C15: diffing a valid snapshot against itself gives no statement:
\* generateSingleStoreMigration(S, S) returns an empty list.
C15_SelfDiffIsEmpty ==
    (unit = "migration") =>
        \A i \in 1..Len(inv) :
            (finished(i) /\ inputs[inv[i].prev] = inputs[inv[i].cur]
                         /\ singlestoreSchemaParse(inputs[inv[i].prev]) # Threw)
                => inv[i].result = [sqlStatements |-> <<>>]

C15_Witness ==
    /\ unit = "migration"
    /\ \E i \in 1..Len(inv) :
          /\ inv[i].pc = "done"
          /\ inputs[inv[i].prev] = inputs[inv[i].cur]
          /\ DOMAIN inputs[inv[i].prev].tables = {"t1"}
          /\ DOMAIN inputs[inv[i].prev].tables["t1"].indexes = {"i1"}
          /\ inv[i].result.sqlStatements = <<>>

---------------------------------------------------------------------------
(* Properties of upPgSnapshot.                                             *)

\* C20: upPgSnapshot applies the upgrade passes in increasing version
\* order: a snapshot of version '5' goes through the v6 pass and then the
\* v7 pass, a snapshot of version '6' through the v7 pass only, a snapshot
\* of any other version is returned unchanged, and no snapshot goes through
\* the v6 pass after the v7 pass.
C20_UpgradesInVersionOrder ==
    (unit = "up" /\ upOut # NoValue) =>
        /\ strictEquals(upIn.version, "5") => upOut.passes = upIn.passes \o <<"v6", "v7">>
        /\ strictEquals(upIn.version, "6") => upOut.passes = upIn.passes \o <<"v7">>
        /\ (~strictEquals(upIn.version, "5") /\ ~strictEquals(upIn.version, "6"))
              => upOut = upIn
        /\ \A i, j \in 1..Len(upOut.passes) :
              (upOut.passes[i] = "v7" /\ upOut.passes[j] = "v6") => j < i

C20_Witness ==
    /\ unit = "up" /\ upOut # NoValue
    /\ strictEquals(upIn.version, "5")
    /\ upOut.passes = <<"v6", "v7">>

---------------------------------------------------------------------------
(* Properties of the CLI push commands.                                    *)

\* C22: in one run of mysqlPush or singlestorePush no SQL string is sent to
\* the database more than once, whether it occurs several times in
\* statementsToExecute, several times in the rendered statements, or once
\* in each of the two lists.
C22_NoStringSentTwice ==
    (entry = "cli" /\ dialect \in {"mysql", "singlestore"}) =>
        \A i, j \in 1..Len(sent) : (sent[i] = sent[j]) => i = j

\* The same for the strings of one list: statementsToExecute alone.
C22_OnceWithinOneList ==
    (entry = "cli" /\ dialect \in {"mysql", "singlestore"} /\ classified) =>
        LET own == Requests(unique(classification.statementsToExecute))
        IN  \A i, j \in 1..Len(sent) :
                (i <= Len(own) /\ j <= Len(own) /\ sent[i] = sent[j]) => i = j

\* The run has left both prompt sites behind it.
pastPrompts == classified /\ (pc \in {"execute", "exec"} \/ exec.phase # "none")

shown(kind) == \E i \in 1..Len(prompts) : prompts[i][1] = kind

\* C23: in a run of a CLI push command with force = false at most one
\* confirmation prompt is shown: the strict prompt exactly when strict is
\* true and shouldAskForApprove is false, the data-loss prompt exactly when
\* shouldAskForApprove is true, none when both are false; 'No, abort' at
\* either prompt ends the run with no statement executed.
C23_AtMostOnePrompt ==
    (entry = "cli" /\ ~args.force) =>
        /\ Len(prompts) <= 1
        /\ shown("strict") =>
              classified /\ args.strict /\ ~classification.shouldAskForApprove
        /\ shown("dataLoss") => classified /\ classification.shouldAskForApprove
        /\ pastPrompts =>
              /\ (args.strict /\ ~classification.shouldAskForApprove) => shown("strict")
              /\ classification.shouldAskForApprove => shown("dataLoss")
        /\ (\E i \in 1..Len(prompts) : prompts[i][2] = "no") =>
              sent = <<>> /\ outcome = "exit0" /\ pc = "done"

C23_Witness ==
    /\ entry = "cli" /\ ~args.force /\ args.strict
    /\ classified /\ ~classification.shouldAskForApprove
    /\ Len(classification.statementsToExecute) > 0
    /\ prompts = <<<<"strict", "no">>>>
    /\ outcome = "exit0"

C23_WitnessDataLoss ==
    /\ entry = "cli" /\ ~args.force /\ args.strict
    /\ classified /\ classification.shouldAskForApprove
    /\ prompts = <<<<"dataLoss", "yes">>>>
    /\ Len(sent) > 0

applied == \E i \in 1..Len(rendered) : rendered[i] = "Changes applied"

\* C24: sqlitePush renders 'Changes applied' only after every statement of
\* statementsToExecute has been executed successfully, for every shape of
\* the credentials (no driver, driver 'turso', any other driver).
C24_AppliedOnlyAfterExecution ==
    (entry = "cli" /\ dialect = "sqlite" /\ applied) =>
        /\ classified
        /\ executedStatements = classification.statementsToExecute

\* The same for credentials without a driver or with driver 'turso'.
C24_WithKnownDriver ==
    (args.driver \in {"none", "turso"}) => C24_AppliedOnlyAfterExecution

isPrefix(a, b) == Len(a) <= Len(b) /\ a = SubSeq(b, 1, Len(a))

control == {<<"begin">>, <<"commit">>, <<"rollback">>}

\* The statements of statementsToExecute sent so far, in the order sent.
statementsSent == SelectSeq(sent, LAMBDA request : request \notin control)

wasSent(request) == \E i \in 1..Len(sent) : sent[i] = request

\* A statement of statementsToExecute was answered with an error.
statementFailed ==
    \E k \in 1..Len(replies) : replies[k] = "err" /\ sent[k] \notin control

rollbackFailed ==
    \E k \in 1..Len(replies) : replies[k] = "err" /\ sent[k] = <<"rollback">>

\* What C25 says of the order of the requests, of 'commit' and of the run
\* after a failing statement, apart from how the run ends.
transactionOrder ==
    /\ (sent # <<>>) => sent[1] = <<"begin">>
    /\ isPrefix(statementsSent, Requests(classification.statementsToExecute))
    /\ wasSent(<<"commit">>) =>
          executedStatements = classification.statementsToExecute
    /\ statementFailed =>
          /\ replies[Len(statementsSent) + 1] = "err"
          /\ ~wasSent(<<"commit">>)
          /\ ~applied
          /\ (pc = "done") => wasSent(<<"rollback">>)

\* C25: in sqlitePush with credentials without a driver 'begin' is issued
\* before the first statement, the statements run in list order and
\* 'commit' is issued only if every statement succeeded; on the first
\* failing statement no later statement is executed, 'rollback' is issued,
\* 'commit' is not, 'Changes applied' is not rendered and the process exits
\* with code 1.
C25_TransactionExitsWithOne ==
    (entry = "cli" /\ dialect = "sqlite" /\ args.driver = "none" /\ classified) =>
        /\ transactionOrder
        /\ (statementFailed /\ pc = "done") => outcome = "exit1"

\* C25 as the code has it: after a failing statement the process exits with
\* code 1 once 'rollback' has succeeded; if 'rollback' fails, sqlitePush
\* rejects with that error instead.
C25_TransactionDiscipline ==
    (entry = "cli" /\ dialect = "sqlite" /\ args.driver = "none" /\ classified) =>
        /\ transactionOrder
        /\ (statementFailed /\ pc = "done") =>
              outcome = (IF rollbackFailed THEN "rejected" ELSE "exit1")

C25_Witness ==
    /\ entry = "cli" /\ dialect = "sqlite" /\ args.driver = "none" /\ classified
    /\ classification.statementsToExecute = <<"A", "B">>
    /\ sent = <<<<"begin">>, <<"A">>, <<"rollback">>>>
    /\ replies = <<"ok", "err", "ok">>
    /\ outcome = "exit1"

---------------------------------------------------------------------------
(* Properties of the index builder.                                        *)

RECURSIVE lastOf(_, _)
\* The argument of the last call of `option` among the first n option
\* calls, undefined if there is none.
lastOf(option, n) ==
    IF n = 0 THEN Undefined
    ELSE IF optionCalls[n][1] = option THEN optionCalls[n][2]
    ELSE lastOf(option, n - 1)

\* The config is what index / uniqueIndex and on gave it, with each option
\* as the last of the first n option calls left it.
configAfter(config, n) ==
    /\ config.name = called[1].name
    /\ config.columns = called[1].columns
    /\ config.unique = (called[1].fn = "uniqueIndex")
    /\ config.using = lastOf("using", n)
    /\ config.algorythm = lastOf("algorythm", n)
    /\ config.lock = lastOf("lock", n)

\* C21: index(name).on(cols) builds a config with unique = false and
\* uniqueIndex(name).on(cols) one with unique = true; each of using,
\* algorythm and lock sets only its own option (so calls for different
\* options commute and the last call for one option wins); an Index
\* already built keeps its name, unique, using, algorythm and lock
\* whatever is called on the builder afterwards.
C21_BuilderOptionsIndependent ==
    (unit = "index" /\ builder # NoValue) =>
        /\ configAfter(builder, Len(optionCalls))
        /\ \A i \in 1..Len(built) :
              /\ configAfter(built[i].index, built[i].after)
              /\ built[i].index.table = "users"

C21_Witness ==
    /\ unit = "index" /\ Len(built) = 1 /\ Len(optionCalls) = 3
    /\ called[1].fn = "uniqueIndex"
    /\ built[1].after = 1
    /\ optionCalls[1][1] = "lock" /\ optionCalls[2][1] = "using"
    /\ optionCalls[3][1] = "lock"
    /\ built[1].index.lock # builder.lock
    /\ built[1].index.using = Undefined /\ builder.using # Undefined

---------------------------------------------------------------------------
(* Properties of the programmatic push functions' steps.                   *)

\* C26: pushSchema builds the current and the introspected previous
\* snapshot over the same database schemas: schemaFilters (or ['public'])
\* restricts both alike, so a table outside the filtered schemas is never
\* in one snapshot and not in the other.
C26_SnapshotsOverSameSchemas ==
    (unit = "pushSchema" /\ called # <<>>) =>
        \A t \in PgTables :
            ~inList(t.schema, orPublic(called[1].schemaFilters)) =>
                ((t \in called[1].cur.tables) <=> (t \in called[1].prev.tables))

\* C27: pushSQLiteSchema and sqlitePush hand the previous and the current
\* squashed snapshot to the data-loss classifier (logSuggestionsAndReturn)
\* in the same argument positions, so that for the same pair of snapshots
\* the classifier gets the same arguments from both.
C27_SameArgumentPositions ==
    (unit = "suggestions") =>
        \A i, j \in 1..Len(called) :
            called[i].json1 = called[j].json1 /\ called[i].json2 = called[j].json2

---------------------------------------------------------------------------
(* Properties of withReplicas.                                             *)

\* C28: on the object withReplicas returned every update, insert, delete,
\* execute and transaction call goes to the primary database and never to
\* a replica, for any replicas list and any getReplica, and $primary is
\* the primary itself.
C28_WritesGoToPrimary ==
    (unit = "replicas") =>
        \A i \in 1..Len(dispatched) :
            (dispatched[i].method \in WriteMethods) =>
                /\ dispatched[i].target = wr.primary
                /\ dispatched[i].target \notin Replicas
                /\ dispatched[i].got = <<>>

C28_Witness ==
    /\ unit = "replicas" /\ Len(dispatched) = 3
    /\ wr.getReplica = "custom"
    /\ dispatched[1].method = "select" /\ dispatched[1].target = "replica2"
    /\ dispatched[2].method = "update" /\ dispatched[2].target = "primary"
    /\ dispatched[3].method = "$primary" /\ dispatched[3].target = "primary"

\* C29: every select, selectDistinct and with call and every access to
\* query goes to the database that one call of getReplica(replicas), made
\* at the time of that call, returned (the choice is not fixed when
\* withReplicas is called); with the default getReplica that database is
\* an element of the non-empty replicas list.
C29_ReadsGoToChosenReplica ==
    (unit = "replicas") =>
        \A i \in 1..Len(dispatched) :
            (dispatched[i].method \in ReadMethods) =>
                /\ Len(dispatched[i].got) = 1
                /\ dispatched[i].target = dispatched[i].got[1]
                /\ (wr.getReplica = "default") => inList(dispatched[i].target, wr.replicas)

C29_Witness ==
    /\ unit = "replicas" /\ Len(dispatched) = 2
    /\ wr.getReplica = "default" /\ wr.replicas = <<"replica1", "replica2">>
    /\ dispatched[1].method = "select" /\ dispatched[1].target = "replica2"
    /\ dispatched[2].method = "query" /\ dispatched[2].target = "replica1"

---------------------------------------------------------------------------
(* Properties of the table filter of singlestorePushIntrospect.            *)

\* The pattern at position i of the call's filters list, read independently
\* of the matcher objects: negated when the number of leading '!' is odd.
leadingBangs(filters, i) ==
    IF filters[i][1] # "!" THEN 0 ELSE IF filters[i][2] # "!" THEN 1 ELSE 2

isNegated(filters, i) == leadingBangs(filters, i) = 1

globOf(filters, i) == SubSeq(filters[i], leadingBangs(filters, i) + 1, Len(filters[i]))

\* C30: the table filter accepts every table when the filters list is
\* empty; with a non-empty list it accepts a table exactly when at least
\* one pattern matches it and no negated pattern excludes it; a table a
\* negated pattern excludes is rejected whatever the other patterns are,
\* and with positive patterns only a table is accepted exactly when it
\* matches one of them.
C30_TableFilter ==
    (unit = "filter" /\ called # <<>>) =>
        LET filters == called[1].filters
            t == called[1].tableName
            hit(i) == globMatch(globOf(filters, i), t)
            matches(i) == IF isNegated(filters, i) THEN ~hit(i) ELSE hit(i)
            excluded == \E i \in 1..Len(filters) : isNegated(filters, i) /\ hit(i)
            positiveOnly == \A i \in 1..Len(filters) : ~isNegated(filters, i)
        IN  /\ (filters = <<>>) => called[1].result
            /\ (filters # <<>>) =>
                  (called[1].result <=>
                      ((\E i \in 1..Len(filters) : matches(i)) /\ ~excluded))
            /\ excluded => ~called[1].result
            /\ (filters # <<>> /\ positiveOnly) =>
                  (called[1].result <=> \E i \in 1..Len(filters) : hit(i))

C30_Witness ==
    /\ unit = "filter" /\ called # <<>>
    /\ called[1].filters = << <<"!", "a">>, <<"*">> >>
    /\ called[1].tableName = <<"a">>
    /\ called[1].result = FALSE

C30_WitnessAccepted ==
    /\ unit = "filter" /\ called # <<>>
    /\ called[1].filters = << <<"!", "a">>, <<"a", "*">> >>
    /\ called[1].tableName = <<"a", "b">>
    /\ called[1].result = TRUE

===========================================================================
